---- MODULE Spec2Model ----
(***************************************************************************)
(* A model of bson-rust's extended-JSON codec (src/src/bson.rs) and of its *)
(* streaming binary decoder (src/src/de/raw.rs).                           *)
(*                                                                         *)
(* Representation.  A Bson value is a record with a tag field t; a JSON    *)
(* value (serde_json::Value) is a record with a tag field j.  Every other  *)
(* field name carries one type only.  String payloads are sequences of     *)
(* one-character strings, so that formatting, parsing and sorting are      *)
(* computed; keys of documents and objects are plain strings.  Documents   *)
(* and JSON objects are sequences of <<key, value>> pairs in iteration     *)
(* order.                                                                  *)
(*                                                                         *)
(* Machine integers are scaled: an i32/u32 has Bits32 bits and an i64/u64  *)
(* has 2*Bits32 bits (TLC's own integers have 32).  Byte-level quantities  *)
(* (u8, the wire format's length prefixes) keep their real width.          *)
(***************************************************************************)
EXTENDS Integers, Sequences, FiniteSets, TLC

VARIABLES
    value,         \* codec: the Bson value handed to an encoder
    json,          \* codec: the serde_json::Value encoded, or given as input
    enc,           \* codec: where json comes from
    doc,           \* codec: the Bson value handed to the Document decode paths
    r_try_from,    \* codec: result of Bson::try_from(json)
    r_from_ext,    \* codec: result of Bson::from_extended_document(doc)
    r_try_ext,     \* codec: result of Bson::try_from_extended_document(doc)
    wire,          \* decoder: the bytes of the reader
    bytes_read,    \* decoder: CountReader::bytes_read
    current_type,  \* decoder: Deserializer::current_type
    stack,         \* decoder: the access objects alive (MapAccess, ArrayAccess, ...), innermost last
    bd,            \* decoder: the BD (binary sub-decoder) alive, if any
    status,        \* decoder: "start", "running", "unwinding" (an Err on its way up the
                   \* call stack), "done" (Ok returned), "error" (Err returned), "panic"
    err,           \* decoder: the error returned or the panic raised
    events,        \* decoder: what the visitor has been handed, in order
    target,        \* timestamp: the byte order of the target the crate is built for
    chain          \* timestamp: a Timestamp or an i64, then what to_le_i64 and
                   \* from_le_i64 make of it in turn

codec_vars == <<value, json, enc, doc, r_try_from, r_from_ext, r_try_ext>>
raw_vars == <<wire, bytes_read, current_type, stack, bd, status, err, events>>
ts_vars == <<target, chain>>
vars == <<value, json, enc, doc, r_try_from, r_from_ext, r_try_ext,
          wire, bytes_read, current_type, stack, bd, status, err, events,
          target, chain>>

---------------------------------------------------------------------------
(* Bounds of the model *)

\* Width of the scaled 32-bit integers; the 64-bit ones have twice as many bits.
Bits32 == 10

I32_MIN == -(2^(Bits32 - 1))
I32_MAX == 2^(Bits32 - 1) - 1
U32_MAX == 2^Bits32 - 1
I64_MIN == -(2^(2 * Bits32 - 1))
I64_MAX == 2^(2 * Bits32 - 1) - 1
U64_MAX == 2^(2 * Bits32) - 1
U8_MAX == 2^8 - 1

---------------------------------------------------------------------------
(* Text: integers *)

Digits == <<"0", "1", "2", "3", "4", "5", "6", "7", "8", "9">>
IsDigit(c) == \E k \in 1..10 : Digits[k] = c
DigitVal(c) == (CHOOSE k \in 1..10 : Digits[k] = c) - 1

RECURSIVE NatToString(_)
NatToString(n) ==
    IF n < 10 THEN <<Digits[n + 1]>>
    ELSE NatToString(n \div 10) \o <<Digits[(n % 10) + 1]>>

\* i32::to_string / i64::to_string
IntToString(i) == IF i < 0 THEN <<"-">> \o NatToString(-i) ELSE NatToString(i)

ParseFail == [ok |-> FALSE, i |-> 0]

\* The digit loop of str::parse for a signed integer: checked multiply and add
\* (subtract for a negative number), an overflow being a parse error.
RECURSIVE ParseDigits(_, _, _, _, _)
ParseDigits(text, acc, negative, lo, hi) ==
    IF text = <<>> THEN [ok |-> TRUE, i |-> acc]
    ELSE IF ~IsDigit(Head(text)) THEN ParseFail
    ELSE LET nxt == IF negative THEN acc * 10 - DigitVal(Head(text))
                    ELSE acc * 10 + DigitVal(Head(text))
         IN  IF nxt < lo \/ nxt > hi THEN ParseFail
             ELSE ParseDigits(Tail(text), nxt, negative, lo, hi)

\* str::parse::<i32>() and str::parse::<i64>(): an optional sign, then at least
\* one digit, nothing else.
ParseInt(text, lo, hi) ==
    IF text = <<>> THEN ParseFail
    ELSE IF Head(text) \in {"+", "-"}
         THEN IF Len(text) = 1 THEN ParseFail
              ELSE ParseDigits(Tail(text), 0, Head(text) = "-", lo, hi)
         ELSE ParseDigits(text, 0, FALSE, lo, hi)

---------------------------------------------------------------------------
(* Text: doubles.  An f64 is [cls, neg, ip, fr]: its class, its sign bit,  *)
(* and for a finite value the integer part and the fractional digits       *)
(* (without trailing zeros) of its shortest decimal form.                  *)

\* A magnitude below 10^-SubnormalZeros stands for the subnormal range.
SubnormalZeros == 3

RECURSIVE StripTrailingZeros(_)
StripTrailingZeros(ds) ==
    IF ds # <<>> /\ ds[Len(ds)] = "0" THEN StripTrailingZeros(SubSeq(ds, 1, Len(ds) - 1))
    ELSE ds

RECURSIVE LeadingZeros(_)
LeadingZeros(ds) ==
    IF ds # <<>> /\ Head(ds) = "0" THEN 1 + LeadingZeros(Tail(ds)) ELSE 0

ClassOf(ip, fr) ==
    IF ip = 0 /\ fr = <<>> THEN "zero"
    ELSE IF ip = 0 /\ LeadingZeros(fr) >= SubnormalZeros THEN "subnormal"
    ELSE "normal"

F64(cls, neg, ip, fr) == [cls |-> cls, neg |-> neg, ip |-> ip, fr |-> fr]
Finite(neg, ip, fr) == F64(ClassOf(ip, fr), neg, ip, fr)
F64_INFINITY == F64("inf", FALSE, 0, <<>>)
F64_NEG_INFINITY == F64("inf", TRUE, 0, <<>>)
F64_NAN == F64("nan", FALSE, 0, <<>>)

is_nan(f) == f.cls = "nan"
is_infinite(f) == f.cls = "inf"
is_normal(f) == f.cls = "normal"
is_sign_negative(f) == f.neg
IsZero(f) == f.cls = "zero"
\* f.fract() == 0.0, for a finite f
FractIsZero(f) == f.fr = <<>>

\* f64's PartialEq: a NaN equals nothing, the two zeros are equal.
F64Eq(f, g) ==
    /\ ~is_nan(f) /\ ~is_nan(g)
    /\ \/ IsZero(f) /\ IsZero(g)
       \/ f = g

\* f64::to_string (Display): no exponent, no forced fraction.
F64ToString(f) ==
    IF is_nan(f) THEN <<"N", "a", "N">>
    ELSE (IF f.neg THEN <<"-">> ELSE <<>>) \o
         (IF is_infinite(f) THEN <<"i", "n", "f">>
          ELSE NatToString(f.ip) \o (IF f.fr = <<>> THEN <<>> ELSE <<".">> \o f.fr))

AllDigits(ds) == \A k \in 1..Len(ds) : IsDigit(ds[k])

RECURSIVE DigitsToNat(_, _)
DigitsToNat(ds, acc) ==
    IF ds = <<>> THEN acc ELSE DigitsToNat(Tail(ds), acc * 10 + DigitVal(Head(ds)))

PointAt(text) ==
    IF \E k \in 1..Len(text) : text[k] = "."
    THEN CHOOSE k \in 1..Len(text) : text[k] = "." /\ \A m \in 1..(k - 1) : text[m] # "."
    ELSE 0

F64ParseFail == [ok |-> FALSE, f |-> F64_NAN]

\* The unsigned part of str::parse::<f64>(): "inf", "NaN", or digits with an
\* optional point (at least one digit in all).  Exponents are outside the
\* alphabet of the model's inputs.
ParseF64Unsigned(text, negative) ==
    IF text = <<"i", "n", "f">> THEN [ok |-> TRUE, f |-> F64("inf", negative, 0, <<>>)]
    ELSE IF text = <<"N", "a", "N">> THEN [ok |-> TRUE, f |-> F64("nan", negative, 0, <<>>)]
    ELSE LET p == PointAt(text)
             ipart == IF p = 0 THEN text ELSE SubSeq(text, 1, p - 1)
             fpart == IF p = 0 THEN <<>> ELSE SubSeq(text, p + 1, Len(text))
         IN  IF AllDigits(ipart) /\ AllDigits(fpart) /\ Len(ipart) + Len(fpart) > 0
             THEN [ok |-> TRUE,
                   f |-> Finite(negative, DigitsToNat(ipart, 0), StripTrailingZeros(fpart))]
             ELSE F64ParseFail

\* str::parse::<f64>()
ParseF64(text) ==
    IF text = <<>> THEN F64ParseFail
    ELSE IF Head(text) \in {"+", "-"} THEN ParseF64Unsigned(Tail(text), Head(text) = "-")
    ELSE ParseF64Unsigned(text, FALSE)

---------------------------------------------------------------------------
(* Text: hex and base64 *)

HexDigits == <<"0", "1", "2", "3", "4", "5", "6", "7", "8", "9",
               "a", "b", "c", "d", "e", "f">>
HexUpper == <<"0", "1", "2", "3", "4", "5", "6", "7", "8", "9",
              "A", "B", "C", "D", "E", "F">>
IsHex(c) == \E k \in 1..16 : HexDigits[k] = c \/ HexUpper[k] = c
HexVal(c) == (CHOOSE k \in 1..16 : HexDigits[k] = c \/ HexUpper[k] = c) - 1

\* hex::encode: two lowercase digits per byte
RECURSIVE HexEncode(_)
HexEncode(bs) ==
    IF bs = <<>> THEN <<>>
    ELSE <<HexDigits[(Head(bs) \div 16) + 1], HexDigits[(Head(bs) % 16) + 1]>>
         \o HexEncode(Tail(bs))

RECURSIVE HexDecodeDigits(_)
HexDecodeDigits(text) ==
    IF text = <<>> THEN <<>>
    ELSE <<HexVal(text[1]) * 16 + HexVal(text[2])>> \o HexDecodeDigits(SubSeq(text, 3, Len(text)))

\* hex::decode: an even number of hex digits of either case
HexDecode(text) ==
    IF Len(text) % 2 = 0 /\ \A k \in 1..Len(text) : IsHex(text[k])
    THEN [ok |-> TRUE, bytes |-> HexDecodeDigits(text)]
    ELSE [ok |-> FALSE, bytes |-> <<>>]

Base64Alphabet ==
    <<"A", "B", "C", "D", "E", "F", "G", "H", "I", "J", "K", "L", "M",
      "N", "O", "P", "Q", "R", "S", "T", "U", "V", "W", "X", "Y", "Z",
      "a", "b", "c", "d", "e", "f", "g", "h", "i", "j", "k", "l", "m",
      "n", "o", "p", "q", "r", "s", "t", "u", "v", "w", "x", "y", "z",
      "0", "1", "2", "3", "4", "5", "6", "7", "8", "9", "+", "/">>
IsB64(c) == \E k \in 1..64 : Base64Alphabet[k] = c
B64Val(c) == (CHOOSE k \in 1..64 : Base64Alphabet[k] = c) - 1

\* base64::encode: the standard alphabet, padded
RECURSIVE Base64Encode(_)
Base64Encode(bs) ==
    IF bs = <<>> THEN <<>>
    ELSE IF Len(bs) = 1
    THEN <<Base64Alphabet[(bs[1] \div 4) + 1], Base64Alphabet[((bs[1] % 4) * 16) + 1], "=", "=">>
    ELSE IF Len(bs) = 2
    THEN <<Base64Alphabet[(bs[1] \div 4) + 1],
           Base64Alphabet[((bs[1] % 4) * 16 + bs[2] \div 16) + 1],
           Base64Alphabet[((bs[2] % 16) * 4) + 1], "=">>
    ELSE <<Base64Alphabet[(bs[1] \div 4) + 1],
           Base64Alphabet[((bs[1] % 4) * 16 + bs[2] \div 16) + 1],
           Base64Alphabet[((bs[2] % 16) * 4 + bs[3] \div 64) + 1],
           Base64Alphabet[(bs[3] % 64) + 1]>> \o Base64Encode(SubSeq(bs, 4, Len(bs)))

\* One group of four symbols; only the last group may be padded, and the bits
\* a padded group leaves over must be zero.
B64Quad(q, last) ==
    IF IsB64(q[1]) /\ IsB64(q[2]) /\ IsB64(q[3]) /\ IsB64(q[4])
    THEN [ok |-> TRUE,
          bytes |-> <<B64Val(q[1]) * 4 + B64Val(q[2]) \div 16,
                      (B64Val(q[2]) % 16) * 16 + B64Val(q[3]) \div 4,
                      (B64Val(q[3]) % 4) * 64 + B64Val(q[4])>>]
    ELSE IF last /\ IsB64(q[1]) /\ IsB64(q[2]) /\ IsB64(q[3]) /\ q[4] = "="
              /\ B64Val(q[3]) % 4 = 0
    THEN [ok |-> TRUE,
          bytes |-> <<B64Val(q[1]) * 4 + B64Val(q[2]) \div 16,
                      (B64Val(q[2]) % 16) * 16 + B64Val(q[3]) \div 4>>]
    ELSE IF last /\ IsB64(q[1]) /\ IsB64(q[2]) /\ q[3] = "=" /\ q[4] = "="
              /\ B64Val(q[2]) % 16 = 0
    THEN [ok |-> TRUE, bytes |-> <<B64Val(q[1]) * 4 + B64Val(q[2]) \div 16>>]
    ELSE [ok |-> FALSE, bytes |-> <<>>]

RECURSIVE Base64DecodeQuads(_)
Base64DecodeQuads(text) ==
    IF text = <<>> THEN [ok |-> TRUE, bytes |-> <<>>]
    ELSE LET q == B64Quad(SubSeq(text, 1, 4), Len(text) = 4)
             rest == Base64DecodeQuads(SubSeq(text, 5, Len(text)))
         IN  IF q.ok /\ rest.ok THEN [ok |-> TRUE, bytes |-> q.bytes \o rest.bytes]
             ELSE [ok |-> FALSE, bytes |-> <<>>]

\* base64::decode
Base64Decode(text) ==
    IF Len(text) % 4 = 0 THEN Base64DecodeQuads(text) ELSE [ok |-> FALSE, bytes |-> <<>>]

\* chars.sort() of a string's characters.  The characters of the model's
\* inputs are lowercase letters, ordered as in the alphabet.
Letters == <<"a", "b", "c", "d", "e", "f", "g", "h", "i", "j", "k", "l", "m",
             "n", "o", "p", "q", "r", "s", "t", "u", "v", "w", "x", "y", "z">>
CharOrd(c) == CHOOSE k \in 1..26 : Letters[k] = c

RECURSIVE InsertSorted(_, _)
InsertSorted(c, sorted) ==
    IF sorted = <<>> THEN <<c>>
    ELSE IF CharOrd(c) < CharOrd(Head(sorted)) THEN <<c>> \o sorted
    ELSE <<Head(sorted)>> \o InsertSorted(c, Tail(sorted))

RECURSIVE SortChars(_)
SortChars(cs) ==
    IF cs = <<>> THEN <<>>
    ELSE InsertSorted(cs[Len(cs)], SortChars(SubSeq(cs, 1, Len(cs) - 1)))

---------------------------------------------------------------------------
(* The value model: enum Bson, and serde_json::Value *)

Double(f) == [t |-> "Double", cls |-> f.cls, neg |-> f.neg, ip |-> f.ip, fr |-> f.fr]
String(s) == [t |-> "String", s |-> s]
Array(a) == [t |-> "Array", a |-> a]
Document(d) == [t |-> "Document", d |-> d]
Boolean(b) == [t |-> "Boolean", b |-> b]
Null == [t |-> "Null"]
RegularExpression(pattern, options) ==
    [t |-> "RegularExpression", pattern |-> pattern, options |-> options]
JavaScriptCode(code) == [t |-> "JavaScriptCode", s |-> code]
JavaScriptCodeWithScope(code, scope) ==
    [t |-> "JavaScriptCodeWithScope", code |-> code, scope |-> scope]
Int32(i) == [t |-> "Int32", i |-> i]
Int64(i) == [t |-> "Int64", i |-> i]
Timestamp(time, increment) == [t |-> "Timestamp", time |-> time, increment |-> increment]
Binary(subtype, bytes) == [t |-> "Binary", subtype |-> subtype, bytes |-> bytes]
ObjectId(oid) == [t |-> "ObjectId", oid |-> oid]
\* chrono's DateTime<Utc>: whole seconds since the epoch and the nanoseconds
\* within the second
DateTime(secs, nanos) == [t |-> "DateTime", secs |-> secs, nanos |-> nanos]
Symbol(s) == [t |-> "Symbol", s |-> s]
Decimal128(dec) == [t |-> "Decimal128", dec |-> dec]
Undefined == [t |-> "Undefined"]
MaxKey == [t |-> "MaxKey"]
MinKey == [t |-> "MinKey"]
DbPointer(namespace, id) == [t |-> "DbPointer", namespace |-> namespace, id |-> id]

F64Of(v) == F64(v.cls, v.neg, v.ip, v.fr)

\* serde_json::Value; a Number is an integer (PosInt / NegInt) or a finite float
JNull == [j |-> "null"]
JBool(b) == [j |-> "bool", b |-> b]
JInt(n) == [j |-> "int", n |-> n]
JFloat(f) == [j |-> "float", cls |-> f.cls, neg |-> f.neg, ip |-> f.ip, fr |-> f.fr]
JStr(s) == [j |-> "str", s |-> s]
JArr(a) == [j |-> "arr", a |-> a]
JObj(o) == [j |-> "obj", o |-> o]

\* Lookups in a sequence of <<key, value>> pairs (a serde_json Map or a Document)
Keys(m) == {m[k][1] : k \in 1..Len(m)}
ContainsKey(m, key) == key \in Keys(m)
\* the first match, as Document's typed accessors see it
Get(m, key) == m[CHOOSE k \in 1..Len(m) : m[k][1] = key /\ \A n \in 1..(k - 1) : m[n][1] # key][2]

\* Results: Ok(v), Err(a DecoderError, raised by the rules of `at`), or a panic
Ok(v) == [r |-> "Ok", val |-> v]
Err(at) == [r |-> "Err", at |-> at]
Panic(msg) == [r |-> "Panic", msg |-> msg]
NotRun == [r |-> "NotRun"]
IsOk(x) == x.r = "Ok"
IsErr(x) == x.r = "Err"
IsPanic(x) == x.r = "Panic"

---------------------------------------------------------------------------
(* chrono: the calls the codec makes *)

MillisPerSec == 1000
NanosPerMilli == 1000000
SecsPerDay == 24 * 3600

\* DateTime::timestamp_millis
timestamp_millis(v) == v.secs * MillisPerSec + v.nanos \div NanosPerMilli
\* DateTime::timestamp_subsec_millis
timestamp_subsec_millis(v) == v.nanos \div NanosPerMilli
\* The calendar is scaled with the 64-bit millisecond range: the first
\* second of the year 10000 and of the year 100000 (253402300800 and
\* 3093527980800 on the real clock)
Year10000 == 2^(Bits32 - 2)
Year100000 == 2^(Bits32 - 1)
\* Datelike::year: 1969 or 1970 near the epoch, then the two scaled years
year(v) ==
    IF v.secs >= Year100000 THEN 100000
    ELSE IF v.secs >= Year10000 THEN 10000
    ELSE 1970 + v.secs \div (365 * SecsPerDay)

TwoDigits(n) == <<Digits[(n \div 10) + 1], Digits[(n % 10) + 1]>>
ThreeDigits(n) == <<Digits[(n \div 100) + 1]>> \o TwoDigits(n % 100)
EpochDay == <<"1", "9", "7", "0", "-", "0", "1", "-", "0", "1">>

\* DateTime::to_rfc3339_opts(format, true), for an instant of the epoch's day
\* or of the first day of a scaled year; a year of more than four digits is
\* written with its sign.  with_millis stands for SecondsFormat::Millis, its
\* absence for Secs
to_rfc3339_opts(v, with_millis) ==
    LET start == IF v.secs >= Year100000 THEN Year100000
                 ELSE IF v.secs >= Year10000 THEN Year10000 ELSE 0
        sod == (v.secs - start) % SecsPerDay
        date == CASE year(v) = 1970 /\ v.secs \div SecsPerDay = 0 -> EpochDay
                  [] year(v) > 9999 /\ (v.secs - start) \div SecsPerDay = 0 ->
                        <<"+">> \o NatToString(year(v)) \o <<"-", "0", "1", "-", "0", "1">>
    IN  date \o <<"T">> \o TwoDigits(sod \div 3600) \o <<":">> \o TwoDigits((sod % 3600) \div 60)
        \o <<":">> \o TwoDigits(sod % 60)
        \o (IF with_millis THEN <<".">> \o ThreeDigits(timestamp_subsec_millis(v)) ELSE <<>>)
        \o <<"Z">>

Rfc3339Fail == [ok |-> FALSE, secs |-> 0, nanos |-> 0]

\* DateTime::parse_from_rfc3339, then the conversion to Utc, for the texts of
\* the epoch's day in UTC ("1970-01-01Thh:mm:ss[.fff]Z"); the model's inputs
\* hold no other well-formed date.
parse_from_rfc3339(text) ==
    IF /\ Len(text) \in {20, 24}
       /\ SubSeq(text, 1, 10) = EpochDay /\ text[11] = "T"
       /\ AllDigits(SubSeq(text, 12, 13)) /\ text[14] = ":"
       /\ AllDigits(SubSeq(text, 15, 16)) /\ text[17] = ":"
       /\ AllDigits(SubSeq(text, 18, 19))
       /\ text[Len(text)] = "Z"
       /\ Len(text) = 24 => (text[20] = "." /\ AllDigits(SubSeq(text, 21, 23)))
       /\ DigitsToNat(SubSeq(text, 12, 13), 0) < 24
       /\ DigitsToNat(SubSeq(text, 15, 16), 0) < 60
       /\ DigitsToNat(SubSeq(text, 18, 19), 0) < 60
    THEN [ok |-> TRUE,
          secs |-> DigitsToNat(SubSeq(text, 12, 13), 0) * 3600
                   + DigitsToNat(SubSeq(text, 15, 16), 0) * 60
                   + DigitsToNat(SubSeq(text, 18, 19), 0),
          nanos |-> IF Len(text) = 24
                    THEN DigitsToNat(SubSeq(text, 21, 23), 0) * NanosPerMilli ELSE 0]
    ELSE Rfc3339Fail

---------------------------------------------------------------------------
(* The extended-JSON encoders *)

\* What an encoder leaves behind when it panics
JPanic == [j |-> "panic"]
AnyPanic(js) == \E k \in 1..Len(js) : js[k] = JPanic
AnyPanicIn(o) == \E k \in 1..Len(o) : o[k][2] = JPanic
\* json!({ ... }) with an interpolated value that panicked
JObjOrPanic(o) == IF AnyPanicIn(o) THEN JPanic ELSE JObj(o)
JArrOrPanic(a) == IF AnyPanic(a) THEN JPanic ELSE JArr(a)

\* Whether the crate is built with the "decimal128" feature; the model is of
\* the default build, without it.
FeatureDecimal128 == FALSE

RECURSIVE into_relaxed_extjson(_)
\* json!(v) of a Vec<Bson>, and of the Document of a $scope: element by element
SerializeArray(a) == JArrOrPanic([k \in 1..Len(a) |-> into_relaxed_extjson(a[k])])
SerializeDocument(d) ==
    JObjOrPanic([k \in 1..Len(d) |-> <<d[k][1], into_relaxed_extjson(d[k][2])>>])

into_relaxed_extjson(v) ==
    CASE v.t = "Double" /\ is_nan(F64Of(v)) ->
            JObj(<< <<"$numberDouble",
                      JStr(IF is_sign_negative(F64Of(v)) THEN <<"-", "N", "a", "N">>
                           ELSE <<"N", "a", "N">>)>> >>)
      [] v.t = "Double" /\ ~is_nan(F64Of(v)) /\ is_infinite(F64Of(v)) ->
            JObj(<< <<"$numberDouble",
                      JStr(IF is_sign_negative(F64Of(v))
                           THEN <<"-", "I", "n", "f", "i", "n", "i", "t", "y">>
                           ELSE <<"I", "n", "f", "i", "n", "i", "t", "y">>)>> >>)
      [] v.t = "Double" /\ ~is_nan(F64Of(v)) /\ ~is_infinite(F64Of(v)) -> JFloat(F64Of(v))
      [] v.t = "String" -> JStr(v.s)
      [] v.t = "Array" -> SerializeArray(v.a)
      [] v.t = "Document" ->
            JObjOrPanic([k \in 1..Len(v.d) |-> <<v.d[k][1], into_relaxed_extjson(v.d[k][2])>>])
      [] v.t = "Boolean" -> JBool(v.b)
      [] v.t = "Null" -> JNull
      [] v.t = "RegularExpression" ->
            JObj(<< <<"$regularExpression",
                      JObj(<< <<"pattern", JStr(v.pattern)>>,
                              <<"options", JStr(SortChars(v.options))>> >>)>> >>)
      [] v.t = "JavaScriptCode" -> JObj(<< <<"$code", JStr(v.s)>> >>)
      [] v.t = "JavaScriptCodeWithScope" ->
            JObjOrPanic(<< <<"$code", JStr(v.code)>>, <<"$scope", SerializeDocument(v.scope)>> >>)
      [] v.t = "Int32" -> JInt(v.i)
      [] v.t = "Int64" -> JInt(v.i)
      [] v.t = "Timestamp" ->
            JObj(<< <<"$timestamp",
                      JObj(<< <<"t", JInt(v.time)>>, <<"i", JInt(v.increment)>> >>)>> >>)
      [] v.t = "Binary" ->
            JObj(<< <<"$binary",
                      JObj(<< <<"base64", JStr(Base64Encode(v.bytes))>>,
                              <<"subType", JStr(HexEncode(<<v.subtype>>))>> >>)>> >>)
      [] v.t = "ObjectId" -> JObj(<< <<"$oid", JStr(HexEncode(v.oid))>> >>)
      [] v.t = "DateTime" /\ timestamp_millis(v) >= 0 /\ year(v) <= 99999 ->
            JObj(<< <<"$date", JStr(to_rfc3339_opts(v, timestamp_subsec_millis(v) # 0))>> >>)
      [] v.t = "DateTime" /\ ~(timestamp_millis(v) >= 0 /\ year(v) <= 99999) ->
            JObj(<< <<"$date",
                      JObj(<< <<"$numberLong", JStr(IntToString(timestamp_millis(v)))>> >>)>> >>)
      [] v.t = "Symbol" -> JObj(<< <<"$symbol", JStr(v.s)>> >>)
      [] v.t = "Decimal128" ->
            IF FeatureDecimal128 THEN JObj(<< <<"$numberDecimal", JStr(v.dec)>> >>) ELSE JPanic
      [] v.t = "Undefined" -> JObj(<< <<"$undefined", JBool(TRUE)>> >>)
      [] v.t = "MinKey" -> JObj(<< <<"$minKey", JInt(1)>> >>)
      [] v.t = "MaxKey" -> JObj(<< <<"$maxKey", JInt(1)>> >>)
      [] v.t = "DbPointer" ->
            JObj(<< <<"$dbPointer",
                      JObj(<< <<"$ref", JStr(v.namespace)>>,
                              <<"$id", JObj(<< <<"$oid", JStr(HexEncode(v.id))>> >>)>> >>)>> >>)

\* The text canonical encoding gives a normal double
CanonicalDoubleText(f) ==
    IF FractIsZero(f) THEN F64ToString(f) \o <<".", "0">> ELSE F64ToString(f)

\* The canonical encoder without its own arms: every kind falls through to
\* the relaxed encoding
into_canonical_extjson_FallThrough(v) == into_relaxed_extjson(v)

RECURSIVE into_canonical_extjson(_)
into_canonical_extjson(v) ==
    CASE v.t = "Int32" -> JObj(<< <<"$numberInt", JStr(IntToString(v.i))>> >>)
      [] v.t = "Int64" -> JObj(<< <<"$numberLong", JStr(IntToString(v.i))>> >>)
      [] v.t = "Double" /\ is_normal(F64Of(v)) ->
            JObj(<< <<"$numberDouble", JStr(CanonicalDoubleText(F64Of(v)))>> >>)
      [] v.t = "Double" /\ ~is_normal(F64Of(v)) /\ IsZero(F64Of(v)) ->
            JObj(<< <<"$numberDouble",
                      JStr(IF is_sign_negative(F64Of(v)) THEN <<"-", "0", ".", "0">>
                           ELSE <<"0", ".", "0">>)>> >>)
      [] v.t = "DateTime" ->
            JObj(<< <<"$date",
                      JObj(<< <<"$numberLong", JStr(IntToString(timestamp_millis(v)))>> >>)>> >>)
      [] v.t = "Array" -> JArrOrPanic([k \in 1..Len(v.a) |-> into_canonical_extjson(v.a[k])])
      [] v.t = "Document" ->
            JObjOrPanic([k \in 1..Len(v.d) |-> <<v.d[k][1], into_canonical_extjson(v.d[k][2])>>])
      [] v.t = "JavaScriptCodeWithScope" ->
            JObjOrPanic(<< <<"$code", JStr(v.code)>>,
                           <<"$scope", into_canonical_extjson(Document(v.scope))>> >>)
      [] OTHER -> into_relaxed_extjson(v)

---------------------------------------------------------------------------
(* serde and the collaborators of the decoder *)

\* Whether a JSON value deserializes into a field of the given Rust type
FieldOk(ty, jv) ==
    CASE ty = "String" -> jv.j = "str"
      [] ty = "u32" -> jv.j = "int" /\ jv.n >= 0 /\ jv.n <= U32_MAX
      [] ty = "u8" -> jv.j = "int" /\ jv.n >= 0 /\ jv.n <= U8_MAX
      [] ty = "bool" -> jv.j = "bool"
      [] ty = "Option<Map>" -> jv.j \in {"null", "obj"}
      [] ty = "struct" -> TRUE

StructFail == [ok |-> FALSE, vals |-> <<>>]

\* A struct derived without deny_unknown_fields: keys that are no field of
\* it are skipped
DeserializeStruct_AllowUnknown(jv, fields) ==
    IF jv.j = "obj"
    THEN IF \A n \in 1..Len(fields) :
                IF ContainsKey(jv.o, fields[n][1])
                THEN FieldOk(fields[n][2], Get(jv.o, fields[n][1]))
                ELSE fields[n][3]
         THEN [ok |-> TRUE,
               vals |-> [n \in 1..Len(fields) |->
                           IF ContainsKey(jv.o, fields[n][1]) THEN Get(jv.o, fields[n][1])
                           ELSE JNull]]
         ELSE StructFail
    ELSE StructFail

\* serde_json::from_value into a #[derive(Deserialize)]
\* #[serde(deny_unknown_fields)] struct.  fields lists <<name, type, has
\* default>> in declaration order.  An object must hold no other key, every
\* field without default, and values of the fields' types; an array gives the
\* fields by position.  vals are the fields' JSON values, JNull for a default.
DeserializeStruct(jv, fields) ==
    IF jv.j = "obj"
    THEN IF /\ \A k \in 1..Len(jv.o) : \E n \in 1..Len(fields) : fields[n][1] = jv.o[k][1]
            /\ \A n \in 1..Len(fields) :
                  IF ContainsKey(jv.o, fields[n][1])
                  THEN FieldOk(fields[n][2], Get(jv.o, fields[n][1]))
                  ELSE fields[n][3]
         THEN [ok |-> TRUE,
               vals |-> [n \in 1..Len(fields) |->
                           IF ContainsKey(jv.o, fields[n][1]) THEN Get(jv.o, fields[n][1])
                           ELSE JNull]]
         ELSE StructFail
    ELSE IF jv.j = "arr"
    THEN IF /\ Len(jv.a) <= Len(fields)
            /\ \A n \in 1..Len(fields) :
                  IF n <= Len(jv.a) THEN FieldOk(fields[n][2], jv.a[n]) ELSE fields[n][3]
         THEN [ok |-> TRUE,
               vals |-> [n \in 1..Len(fields) |-> IF n <= Len(jv.a) THEN jv.a[n] ELSE JNull]]
         ELSE StructFail
    ELSE StructFail

OidLen == 12
\* ObjectId::with_string: the hex text of exactly twelve bytes
ObjectId_with_string(text) ==
    LET h == HexDecode(text)
    IN  IF h.ok /\ Len(h.bytes) = OidLen THEN h ELSE [ok |-> FALSE, bytes |-> <<>>]

\* Rust's integer / and %: the quotient truncates toward zero and the
\* remainder has the sign of the dividend
TruncDiv(a, b) == IF a >= 0 THEN a \div b ELSE -((-a) \div b)
TruncRem(a, b) == a - b * TruncDiv(a, b)

\* Utc.timestamp(num_secs, num_millis as u32 * 1_000_000).  A negative
\* num_millis wraps in the cast; the product then overflows u32 (a panic in a
\* debug build) or wraps to a value of 2 * 10^9 or more, which chrono
\* rejects with a panic, as it does every nanosecond argument that large.
UtcTimestampMillis(num_secs, num_millis) ==
    IF num_millis >= 0 /\ num_millis * NanosPerMilli < 2 * 1000 * NanosPerMilli
    THEN Ok(DateTime(num_secs, num_millis * NanosPerMilli))
    ELSE Panic("No such local time")

\* The split without the move of a negative remainder: Rust's / and % alone
DateFromMillis_Truncating(date) ==
    UtcTimestampMillis(TruncDiv(date, MillisPerSec), TruncRem(date, MillisPerSec))

\* The three decode paths hold the same lines (bson.rs 575-601, 1192-1216,
\* 1399-1425): split epoch milliseconds, move a negative remainder up.
DateFromMillis(date) ==
    LET num_secs == TruncDiv(date, MillisPerSec)
        num_millis == TruncRem(date, MillisPerSec)
    IN  IF num_millis < 0
        THEN UtcTimestampMillis(num_secs - 1, num_millis + MillisPerSec)
        ELSE UtcTimestampMillis(num_secs, num_millis)

\* The first result of a sequence that is not Ok, or NotRun when all are
FirstFailure(rs) ==
    IF \E k \in 1..Len(rs) : ~IsOk(rs[k])
    THEN rs[CHOOSE k \in 1..Len(rs) : ~IsOk(rs[k]) /\ \A n \in 1..(k - 1) : IsOk(rs[n])]
    ELSE NotRun

\* collect::<DecoderResult<Vec<_>>>() of element results
CollectArray(rs) ==
    IF FirstFailure(rs) = NotRun THEN Ok(Array([k \in 1..Len(rs) |-> rs[k].val]))
    ELSE FirstFailure(rs)

\* The same for the <<key, result>> pairs of a document
CollectDocument(keys, rs) ==
    IF FirstFailure(rs) = NotRun
    THEN Ok(Document([k \in 1..Len(rs) |-> <<keys[k], rs[k].val>>]))
    ELSE FirstFailure(rs)

---------------------------------------------------------------------------
(* impl TryFrom<serde_json::Value> for Bson *)

\* The plain-number arm, shared by try_from and from_value_no_parse:
\* as_i64, else as_u64 through From<u64> (`a as i64`), else as_f64
\* NumberToBson without the test of the 32-bit range
NumberToBson_AlwaysInt64(jv) ==
    IF jv.j = "float" THEN Double(F64(jv.cls, jv.neg, jv.ip, jv.fr))
    ELSE IF jv.n <= I64_MAX
         THEN Int64(jv.n)
         ELSE Int64(jv.n - (U64_MAX + 1))

NumberToBson(jv) ==
    IF jv.j = "float" THEN Double(F64(jv.cls, jv.neg, jv.ip, jv.fr))
    ELSE IF jv.n <= I64_MAX
         THEN IF jv.n >= I32_MIN /\ jv.n <= I32_MAX THEN Int32(jv.n) ELSE Int64(jv.n)
         ELSE Int64(jv.n - (U64_MAX + 1))

ExtJsonOid_parse(jv) ==
    LET st == DeserializeStruct(jv, << <<"$oid", "String", FALSE>> >>)
    IN  IF ~st.ok THEN Err("$oid")
        ELSE IF ~ObjectId_with_string(st.vals[1].s).ok THEN Err("$oid")
        ELSE Ok(ObjectId(ObjectId_with_string(st.vals[1].s).bytes))

ExtJsonInt64_parse(jv, at) ==
    LET st == DeserializeStruct(jv, << <<"$numberLong", "String", FALSE>> >>)
    IN  IF ~st.ok THEN Err(at)
        ELSE IF ~ParseInt(st.vals[1].s, I64_MIN, I64_MAX).ok THEN Err(at)
        ELSE Ok(Int64(ParseInt(st.vals[1].s, I64_MIN, I64_MAX).i))

RECURSIVE try_from(_)
\* Document::from_ext_json: every field through Bson::try_from, in order
Document_from_ext_json(o) ==
    CollectDocument([k \in 1..Len(o) |-> o[k][1]], [k \in 1..Len(o) |-> try_from(o[k][2])])

TryFromOid(jv) == ExtJsonOid_parse(jv)

\* The struct of the $symbol arm without its deny_unknown_fields attribute
TryFromSymbol_AllowUnknown(jv) ==
    LET st == DeserializeStruct_AllowUnknown(jv, << <<"$symbol", "String", FALSE>> >>)
    IN  IF st.ok THEN Ok(Symbol(st.vals[1].s)) ELSE Err("$symbol")

TryFromSymbol(jv) ==
    LET st == DeserializeStruct(jv, << <<"$symbol", "String", FALSE>> >>)
    IN  IF st.ok THEN Ok(Symbol(st.vals[1].s)) ELSE Err("$symbol")

\* TryFromRegex without the sort of the option characters
TryFromRegex_Unsorted(jv) ==
    LET st == DeserializeStruct(jv, << <<"$regularExpression", "struct", FALSE>> >>)
        body == DeserializeStruct(st.vals[1], << <<"pattern", "String", FALSE>>,
                                                 <<"options", "String", FALSE>> >>)
    IN  IF ~st.ok THEN Err("$regularExpression")
        ELSE IF ~body.ok THEN Err("$regularExpression")
        ELSE Ok(RegularExpression(body.vals[1].s, body.vals[2].s))

TryFromRegex(jv) ==
    LET st == DeserializeStruct(jv, << <<"$regularExpression", "struct", FALSE>> >>)
        body == DeserializeStruct(st.vals[1], << <<"pattern", "String", FALSE>>,
                                                 <<"options", "String", FALSE>> >>)
    IN  IF ~st.ok THEN Err("$regularExpression")
        ELSE IF ~body.ok THEN Err("$regularExpression")
        ELSE Ok(RegularExpression(body.vals[1].s, SortChars(body.vals[2].s)))

TryFromInt32(jv) ==
    LET st == DeserializeStruct(jv, << <<"$numberInt", "String", FALSE>> >>)
    IN  IF ~st.ok THEN Err("$numberInt")
        ELSE IF ~ParseInt(st.vals[1].s, I32_MIN, I32_MAX).ok THEN Err("$numberInt")
        ELSE Ok(Int32(ParseInt(st.vals[1].s, I32_MIN, I32_MAX).i))

TryFromInt64(jv) == ExtJsonInt64_parse(jv, "$numberLong")

\* The $numberDouble arm with "-NaN" matched next to "NaN": both give f64::NAN
TryFromDouble_OneNaN(jv) ==
    LET st == DeserializeStruct(jv, << <<"$numberDouble", "String", FALSE>> >>)
        text == st.vals[1].s
    IN  IF ~st.ok THEN Err("$numberDouble")
        ELSE IF text = <<"I", "n", "f", "i", "n", "i", "t", "y">> THEN Ok(Double(F64_INFINITY))
        ELSE IF text = <<"-", "I", "n", "f", "i", "n", "i", "t", "y">>
             THEN Ok(Double(F64_NEG_INFINITY))
        ELSE IF text \in {<<"N", "a", "N">>, <<"-", "N", "a", "N">>} THEN Ok(Double(F64_NAN))
        ELSE IF ParseF64(text).ok THEN Ok(Double(ParseF64(text).f))
        ELSE Err("$numberDouble")

TryFromDouble(jv) ==
    LET st == DeserializeStruct(jv, << <<"$numberDouble", "String", FALSE>> >>)
        text == st.vals[1].s
    IN  IF ~st.ok THEN Err("$numberDouble")
        ELSE IF text = <<"I", "n", "f", "i", "n", "i", "t", "y">> THEN Ok(Double(F64_INFINITY))
        ELSE IF text = <<"-", "I", "n", "f", "i", "n", "i", "t", "y">>
             THEN Ok(Double(F64_NEG_INFINITY))
        ELSE IF text = <<"N", "a", "N">> THEN Ok(Double(F64_NAN))
        ELSE IF ParseF64(text).ok THEN Ok(Double(ParseF64(text).f))
        ELSE Err("$numberDouble")

TryFromBinary(jv) ==
    LET st == DeserializeStruct(jv, << <<"$binary", "struct", FALSE>> >>)
        body == DeserializeStruct(st.vals[1], << <<"base64", "String", FALSE>>,
                                                 <<"subType", "String", FALSE>> >>)
        bytes == Base64Decode(body.vals[1].s)
        subtype == HexDecode(body.vals[2].s)
    IN  IF ~st.ok THEN Err("$binary")
        ELSE IF ~body.ok THEN Err("$binary")
        ELSE IF ~bytes.ok THEN Err("$binary")
        ELSE IF ~subtype.ok THEN Err("$binary")
        ELSE IF Len(subtype.bytes) = 1 THEN Ok(Binary(subtype.bytes[1], bytes.bytes))
        ELSE Err("$binary")

TryFromCode(jv) ==
    LET st == DeserializeStruct(jv, << <<"$code", "String", FALSE>>,
                                       <<"$scope", "Option<Map>", TRUE>> >>)
        scope == Document_from_ext_json(st.vals[2].o)
    IN  IF ~st.ok THEN Err("$code")
        ELSE IF st.vals[2].j = "obj"
             THEN IF IsOk(scope) THEN Ok(JavaScriptCodeWithScope(st.vals[1].s, scope.val.d))
                  ELSE scope
             ELSE Ok(JavaScriptCode(st.vals[1].s))

TryFromTimestamp(jv) ==
    LET st == DeserializeStruct(jv, << <<"$timestamp", "struct", FALSE>> >>)
        body == DeserializeStruct(st.vals[1], << <<"t", "u32", FALSE>>, <<"i", "u32", FALSE>> >>)
    IN  IF ~st.ok THEN Err("$timestamp")
        ELSE IF ~body.ok THEN Err("$timestamp")
        ELSE Ok(Timestamp(body.vals[1].n, body.vals[2].n))

\* ExtJsonDateTimeBody is untagged: Canonical(ExtJsonInt64) is tried first,
\* then Relaxed(String)
TryFromDate(jv) ==
    LET st == DeserializeStruct(jv, << <<"$date", "struct", FALSE>> >>)
        body == st.vals[1]
        canonical == DeserializeStruct(body, << <<"$numberLong", "String", FALSE>> >>)
        date == ParseInt(canonical.vals[1].s, I64_MIN, I64_MAX)
        datetime == parse_from_rfc3339(body.s)
    IN  IF ~st.ok THEN Err("$date")
        ELSE IF canonical.ok
             THEN IF date.ok THEN DateFromMillis(date.i) ELSE Err("$date")
        ELSE IF body.j = "str"
             THEN IF datetime.ok THEN Ok(DateTime(datetime.secs, datetime.nanos))
                  ELSE Err("$date")
        ELSE Err("$date")

TryFromMinKey(jv) ==
    LET st == DeserializeStruct(jv, << <<"$minKey", "u8", FALSE>> >>)
    IN  IF ~st.ok THEN Err("$minKey")
        ELSE IF st.vals[1].n = 1 THEN Ok(MinKey) ELSE Err("$minKey")

TryFromMaxKey(jv) ==
    LET st == DeserializeStruct(jv, << <<"$maxKey", "u8", FALSE>> >>)
    IN  IF ~st.ok THEN Err("$maxKey")
        ELSE IF st.vals[1].n = 1 THEN Ok(MaxKey) ELSE Err("$maxKey")

TryFromDbPointer(jv) ==
    LET st == DeserializeStruct(jv, << <<"$dbPointer", "struct", FALSE>> >>)
        body == DeserializeStruct(st.vals[1], << <<"$ref", "String", FALSE>>,
                                                 <<"$id", "struct", FALSE>> >>)
        id == ExtJsonOid_parse(body.vals[2])
    IN  IF ~st.ok THEN Err("$dbPointer")
        ELSE IF ~body.ok THEN Err("$dbPointer")
        ELSE IF ~IsOk(id) THEN Err("$dbPointer")
        ELSE Ok(DbPointer(body.vals[1].s, id.val.oid))

\* Without the decimal128 feature the key alone is an error
TryFromDecimal128(jv) ==
    LET st == DeserializeStruct(jv, << <<"$numberDecimal", "String", FALSE>> >>)
    IN  IF FeatureDecimal128 /\ st.ok THEN Ok(Decimal128(st.vals[1].s))
        ELSE Err("$numberDecimal")

TryFromUndefined(jv) ==
    LET st == DeserializeStruct(jv, << <<"$undefined", "bool", FALSE>> >>)
    IN  IF ~st.ok THEN Err("$undefined")
        ELSE IF st.vals[1].b THEN Ok(Undefined) ELSE Err("$undefined")

\* The chain with the tests of $oid and $symbol exchanged
TryFromObject_SymbolFirst(jv) ==
    IF ContainsKey(jv.o, "$symbol") THEN TryFromSymbol(jv)
    ELSE IF ContainsKey(jv.o, "$oid") THEN TryFromOid(jv)
    ELSE IF ContainsKey(jv.o, "$regularExpression") THEN TryFromRegex(jv)
    ELSE IF ContainsKey(jv.o, "$numberInt") THEN TryFromInt32(jv)
    ELSE IF ContainsKey(jv.o, "$numberLong") THEN TryFromInt64(jv)
    ELSE IF ContainsKey(jv.o, "$numberDouble") THEN TryFromDouble(jv)
    ELSE IF ContainsKey(jv.o, "$binary") THEN TryFromBinary(jv)
    ELSE IF ContainsKey(jv.o, "$code") THEN TryFromCode(jv)
    ELSE IF ContainsKey(jv.o, "$timestamp") THEN TryFromTimestamp(jv)
    ELSE IF ContainsKey(jv.o, "$date") THEN TryFromDate(jv)
    ELSE IF ContainsKey(jv.o, "$minKey") THEN TryFromMinKey(jv)
    ELSE IF ContainsKey(jv.o, "$maxKey") THEN TryFromMaxKey(jv)
    ELSE IF ContainsKey(jv.o, "$dbPointer") THEN TryFromDbPointer(jv)
    ELSE IF ContainsKey(jv.o, "$numberDecimal") THEN TryFromDecimal128(jv)
    ELSE IF ContainsKey(jv.o, "$undefined") THEN TryFromUndefined(jv)
    ELSE Document_from_ext_json(jv.o)

\* The chain of contains_key tests, in the order of the source
TryFromObject(jv) ==
    IF ContainsKey(jv.o, "$oid") THEN TryFromOid(jv)
    ELSE IF ContainsKey(jv.o, "$symbol") THEN TryFromSymbol(jv)
    ELSE IF ContainsKey(jv.o, "$regularExpression") THEN TryFromRegex(jv)
    ELSE IF ContainsKey(jv.o, "$numberInt") THEN TryFromInt32(jv)
    ELSE IF ContainsKey(jv.o, "$numberLong") THEN TryFromInt64(jv)
    ELSE IF ContainsKey(jv.o, "$numberDouble") THEN TryFromDouble(jv)
    ELSE IF ContainsKey(jv.o, "$binary") THEN TryFromBinary(jv)
    ELSE IF ContainsKey(jv.o, "$code") THEN TryFromCode(jv)
    ELSE IF ContainsKey(jv.o, "$timestamp") THEN TryFromTimestamp(jv)
    ELSE IF ContainsKey(jv.o, "$date") THEN TryFromDate(jv)
    ELSE IF ContainsKey(jv.o, "$minKey") THEN TryFromMinKey(jv)
    ELSE IF ContainsKey(jv.o, "$maxKey") THEN TryFromMaxKey(jv)
    ELSE IF ContainsKey(jv.o, "$dbPointer") THEN TryFromDbPointer(jv)
    ELSE IF ContainsKey(jv.o, "$numberDecimal") THEN TryFromDecimal128(jv)
    ELSE IF ContainsKey(jv.o, "$undefined") THEN TryFromUndefined(jv)
    ELSE Document_from_ext_json(jv.o)

try_from(jv) ==
    CASE jv.j = "obj" -> TryFromObject(jv)
      [] jv.j \in {"int", "float"} -> Ok(NumberToBson(jv))
      [] jv.j = "str" -> Ok(String(jv.s))
      [] jv.j = "bool" -> Ok(Boolean(jv.b))
      [] jv.j = "arr" -> CollectArray([k \in 1..Len(jv.a) |-> try_from(jv.a[k])])
      [] jv.j = "null" -> Ok(Null)

---------------------------------------------------------------------------
(* Bson::from_value_no_parse, and the Document decode paths *)

RECURSIVE from_value_no_parse(_)
from_value_no_parse(jv) ==
    CASE jv.j \in {"int", "float"} -> NumberToBson(jv)
      [] jv.j = "str" -> String(jv.s)
      [] jv.j = "bool" -> Boolean(jv.b)
      [] jv.j = "arr" -> Array([k \in 1..Len(jv.a) |-> from_value_no_parse(jv.a[k])])
      [] jv.j = "obj" ->
            Document([k \in 1..Len(jv.o) |-> <<jv.o[k][1], from_value_no_parse(jv.o[k][2])>>])
      [] jv.j = "null" -> Null

\* Document's typed accessors: the first value under the key, if it is there
\* and of the asked kind
Has(d, key, kind) == ContainsKey(d, key) /\ Get(d, key).t = kind
get_str_ok(d, key) == Has(d, key, "String")
get_document_ok(d, key) == Has(d, key, "Document")
get_i32_ok(d, key) == Has(d, key, "Int32")
get_i64_ok(d, key) == Has(d, key, "Int64")
get_bool_ok(d, key) == Has(d, key, "Boolean")
get_object_id_ok(d, key) == Has(d, key, "ObjectId")

\* keys.sort() of the document's keys: as a set, a match on the sorted slice
\* being a test of which keys there are
KeysAre(d, ks) == Len(d) = Cardinality(ks) /\ Keys(d) = ks

\* `x as u32` of a signed integer
AsU32(x) == x % (U32_MAX + 1)

\* Binary::from_extended_doc
Binary_from_extended_doc(d) ==
    LET binary == Get(d, "$binary").d
        bytes == Base64Decode(Get(binary, "base64").s)
        subtype == HexDecode(Get(binary, "subType").s)
    IN  IF ~get_document_ok(d, "$binary") THEN Err("$binary")
        ELSE IF ~get_str_ok(binary, "base64") THEN Err("$binary")
        ELSE IF ~bytes.ok THEN Err("$binary")
        ELSE IF ~get_str_ok(binary, "subType") THEN Err("$binary")
        ELSE IF ~subtype.ok THEN Err("$binary")
        ELSE IF Len(subtype.bytes) = 1 THEN Ok(Binary(subtype.bytes[1], bytes.bytes))
        ELSE Err("$binary")

\* The arms of from_extended_document's match on the sorted keys: the value
\* an arm returns, or NotRun when the arm (or no arm) falls through to the end
FromExtendedWrapper(d) ==
    CASE KeysAre(d, {"$oid"}) ->
            IF get_str_ok(d, "$oid") /\ ObjectId_with_string(Get(d, "$oid").s).ok
            THEN Ok(ObjectId(ObjectId_with_string(Get(d, "$oid").s).bytes)) ELSE NotRun
      [] KeysAre(d, {"$symbol"}) ->
            IF get_str_ok(d, "$symbol") THEN Ok(Symbol(Get(d, "$symbol").s)) ELSE NotRun
      [] KeysAre(d, {"$numberInt"}) ->
            IF get_str_ok(d, "$numberInt")
               /\ ParseInt(Get(d, "$numberInt").s, I32_MIN, I32_MAX).ok
            THEN Ok(Int32(ParseInt(Get(d, "$numberInt").s, I32_MIN, I32_MAX).i)) ELSE NotRun
      [] KeysAre(d, {"$numberLong"}) ->
            IF get_str_ok(d, "$numberLong")
               /\ ParseInt(Get(d, "$numberLong").s, I64_MIN, I64_MAX).ok
            THEN Ok(Int64(ParseInt(Get(d, "$numberLong").s, I64_MIN, I64_MAX).i)) ELSE NotRun
      [] KeysAre(d, {"$numberDouble"}) ->
            IF ~get_str_ok(d, "$numberDouble") THEN NotRun
            ELSE LET text == Get(d, "$numberDouble").s
                 IN  IF text = <<"I", "n", "f", "i", "n", "i", "t", "y">>
                     THEN Ok(Double(F64_INFINITY))
                     ELSE IF text = <<"-", "I", "n", "f", "i", "n", "i", "t", "y">>
                     THEN Ok(Double(F64_NEG_INFINITY))
                     ELSE IF text = <<"N", "a", "N">> THEN Ok(Double(F64_NAN))
                     ELSE IF ParseF64(text).ok THEN Ok(Double(ParseF64(text).f))
                     ELSE NotRun
      [] KeysAre(d, {"$numberDecimal"}) ->
            IF FeatureDecimal128 /\ get_str_ok(d, "$numberDecimal")
            THEN Ok(Decimal128(Get(d, "$numberDecimal").s)) ELSE NotRun
      [] KeysAre(d, {"$binary"}) ->
            IF IsOk(Binary_from_extended_doc(d)) THEN Binary_from_extended_doc(d) ELSE NotRun
      [] KeysAre(d, {"$code"}) ->
            IF get_str_ok(d, "$code") THEN Ok(JavaScriptCode(Get(d, "$code").s)) ELSE NotRun
      [] KeysAre(d, {"$code", "$scope"}) ->
            IF get_str_ok(d, "$code") /\ get_document_ok(d, "$scope")
            THEN Ok(JavaScriptCodeWithScope(Get(d, "$code").s, Get(d, "$scope").d))
            ELSE NotRun
      [] KeysAre(d, {"$timestamp"}) ->
            IF ~get_document_ok(d, "$timestamp") THEN NotRun
            ELSE LET timestamp == Get(d, "$timestamp").d
                 IN  IF get_i32_ok(timestamp, "t") /\ get_i32_ok(timestamp, "i")
                     THEN Ok(Timestamp(AsU32(Get(timestamp, "t").i),
                                       AsU32(Get(timestamp, "i").i)))
                     ELSE IF /\ get_i64_ok(timestamp, "t") /\ get_i64_ok(timestamp, "i")
                             /\ Get(timestamp, "t").i >= 0 /\ Get(timestamp, "i").i >= 0
                             /\ Get(timestamp, "t").i <= U32_MAX
                             /\ Get(timestamp, "i").i <= U32_MAX
                     THEN Ok(Timestamp(Get(timestamp, "t").i, Get(timestamp, "i").i))
                     ELSE NotRun
      [] KeysAre(d, {"$regularExpression"}) ->
            IF ~get_document_ok(d, "$regularExpression") THEN NotRun
            ELSE LET regex == Get(d, "$regularExpression").d
                 IN  IF get_str_ok(regex, "pattern") /\ get_str_ok(regex, "options")
                     THEN Ok(RegularExpression(Get(regex, "pattern").s,
                                               SortChars(Get(regex, "options").s)))
                     ELSE NotRun
      [] KeysAre(d, {"$dbPointer"}) ->
            IF ~get_document_ok(d, "$dbPointer") THEN NotRun
            ELSE LET db_pointer == Get(d, "$dbPointer").d
                 IN  IF get_str_ok(db_pointer, "$ref") /\ get_object_id_ok(db_pointer, "$id")
                     THEN Ok(DbPointer(Get(db_pointer, "$ref").s, Get(db_pointer, "$id").oid))
                     ELSE NotRun
      [] KeysAre(d, {"$date"}) ->
            IF get_i64_ok(d, "$date") THEN DateFromMillis(Get(d, "$date").i)
            ELSE IF get_str_ok(d, "$date") /\ parse_from_rfc3339(Get(d, "$date").s).ok
            THEN Ok(DateTime(parse_from_rfc3339(Get(d, "$date").s).secs,
                             parse_from_rfc3339(Get(d, "$date").s).nanos))
            ELSE NotRun
      [] KeysAre(d, {"$minKey"}) ->
            IF Get(d, "$minKey") = Int32(1) \/ Get(d, "$minKey") = Int64(1)
            THEN Ok(MinKey) ELSE NotRun
      [] KeysAre(d, {"$maxKey"}) ->
            IF Get(d, "$maxKey") = Int32(1) \/ Get(d, "$maxKey") = Int64(1)
            THEN Ok(MaxKey) ELSE NotRun
      [] KeysAre(d, {"$undefined"}) ->
            IF Get(d, "$undefined") = Boolean(TRUE) THEN Ok(Undefined) ELSE NotRun
      [] OTHER -> NotRun

\* from_extended_document returns a Bson, never an error; a panic of the
\* chrono call is the one other outcome.
RECURSIVE from_extended_document(_)
from_extended_document(d) ==
    IF Len(d) > 2 THEN Ok(Document(d))
    ELSE IF FromExtendedWrapper(d) # NotRun THEN FromExtendedWrapper(d)
    ELSE CollectDocument(
            [k \in 1..Len(d) |-> d[k][1]],
            [k \in 1..Len(d) |->
                IF d[k][2].t = "Document" THEN from_extended_document(d[k][2].d)
                ELSE Ok(d[k][2])])

\* $code in try_from_extended_document
TryExtCode(d) ==
    IF ~get_str_ok(d, "$code") THEN Err("$code")
    ELSE IF ContainsKey(d, "$scope")
    THEN IF Get(d, "$scope").t = "Document"
         THEN IF Len(d) > 2 THEN Panic("www")
              ELSE Ok(JavaScriptCodeWithScope(Get(d, "$code").s, Get(d, "$scope").d))
         ELSE Err("$code")
    ELSE IF Len(d) > 1 THEN Panic("ww")
    ELSE Ok(JavaScriptCode(Get(d, "$code").s))

\* $regularExpression in try_from_extended_document: the body is searched for
\* a key other than "$pattern" and "$options"
TryExtRegex(d) ==
    LET regex_doc == Get(d, "$regularExpression").d
    IN  IF \E key \in Keys(d) : key # "$regularExpression" THEN Err("$regularExpression")
        ELSE IF ~get_document_ok(d, "$regularExpression") THEN Err("$regularExpression")
        ELSE IF ~get_str_ok(regex_doc, "pattern") THEN Err("$regularExpression")
        ELSE IF ~get_str_ok(regex_doc, "options") THEN Err("$regularExpression")
        ELSE IF \E key \in Keys(regex_doc) : key # "$pattern" /\ key # "$options"
             THEN Err("$regularExpression")
        ELSE Ok(RegularExpression(Get(regex_doc, "pattern").s,
                                  SortChars(Get(regex_doc, "options").s)))

TryExtDate(d) ==
    IF Get(d, "$date").t = "Int64" THEN DateFromMillis(Get(d, "$date").i)
    ELSE IF Get(d, "$date").t = "String"
    THEN IF parse_from_rfc3339(Get(d, "$date").s).ok
         THEN Ok(DateTime(parse_from_rfc3339(Get(d, "$date").s).secs,
                          parse_from_rfc3339(Get(d, "$date").s).nanos))
         ELSE Err("$date")
    ELSE Err("$date")

RECURSIVE try_from_extended_document(_)
try_from_extended_document(d) ==
    IF ContainsKey(d, "$oid")
    THEN IF get_str_ok(d, "$oid") /\ ObjectId_with_string(Get(d, "$oid").s).ok
         THEN Ok(ObjectId(ObjectId_with_string(Get(d, "$oid").s).bytes)) ELSE Err("$oid")
    ELSE IF ContainsKey(d, "$symbol")
    THEN IF get_str_ok(d, "$symbol") THEN Ok(Symbol(Get(d, "$symbol").s)) ELSE Err("$symbol")
    ELSE IF ContainsKey(d, "$numberInt")
    THEN IF get_str_ok(d, "$numberInt")
            /\ ParseInt(Get(d, "$numberInt").s, I32_MIN, I32_MAX).ok
         THEN Ok(Int32(ParseInt(Get(d, "$numberInt").s, I32_MIN, I32_MAX).i))
         ELSE Err("$numberInt")
    ELSE IF ContainsKey(d, "$numberLong")
    THEN \* the string is read from "$numberInt"
         IF get_str_ok(d, "$numberInt")
            /\ ParseInt(Get(d, "$numberInt").s, I64_MIN, I64_MAX).ok
         THEN Ok(Int64(ParseInt(Get(d, "$numberInt").s, I64_MIN, I64_MAX).i))
         ELSE Err("$numberLong")
    ELSE IF ContainsKey(d, "$numberDouble")
    THEN IF ~get_str_ok(d, "$numberDouble") THEN Err("$numberDouble")
         ELSE LET text == Get(d, "$numberDouble").s
              IN  IF text = <<"I", "n", "f", "i", "n", "i", "t", "y">>
                  THEN Ok(Double(F64_INFINITY))
                  ELSE IF text = <<"-", "I", "n", "f", "i", "n", "i", "t", "y">>
                  THEN Ok(Double(F64_NEG_INFINITY))
                  ELSE IF text = <<"N", "a", "N">> THEN Ok(Double(F64_NAN))
                  ELSE IF ParseF64(text).ok THEN Ok(Double(ParseF64(text).f))
                  ELSE Err("$numberDouble")
    ELSE IF ContainsKey(d, "$code") THEN TryExtCode(d)
    ELSE IF ContainsKey(d, "$timestamp")
    THEN IF ~get_document_ok(d, "$timestamp") THEN Err("$timestamp")
         ELSE LET timestamp == Get(d, "$timestamp").d
              IN  IF get_i32_ok(timestamp, "t") /\ get_i32_ok(timestamp, "i")
                  THEN Ok(Timestamp(AsU32(Get(timestamp, "t").i), AsU32(Get(timestamp, "i").i)))
                  ELSE Err("$timestamp")
    ELSE IF ContainsKey(d, "$regularExpression") THEN TryExtRegex(d)
    ELSE IF ContainsKey(d, "$dbPointer")
    THEN IF ~get_document_ok(d, "$dbPointer") THEN Err("$dbPointer")
         ELSE LET db_pointer == Get(d, "$dbPointer").d
              IN  IF get_str_ok(db_pointer, "$ref") /\ get_object_id_ok(db_pointer, "$id")
                  THEN Ok(DbPointer(Get(db_pointer, "$ref").s, Get(db_pointer, "$id").oid))
                  ELSE Err("$dbPointer")
    ELSE IF ContainsKey(d, "$date") THEN TryExtDate(d)
    ELSE IF ContainsKey(d, "$minKey")
    THEN IF Get(d, "$minKey") = Int32(1) \/ Get(d, "$minKey") = Int64(1)
         THEN Ok(MinKey) ELSE Err("$minKey")
    ELSE IF ContainsKey(d, "$maxKey")
    THEN IF Get(d, "$maxKey") = Int32(1) \/ Get(d, "$maxKey") = Int64(1)
         THEN Ok(MaxKey) ELSE Err("$maxKey")
    ELSE IF ContainsKey(d, "$undefined")
    THEN IF ~get_bool_ok(d, "$undefined") THEN Err("$undefined")
         ELSE IF Get(d, "$undefined").b THEN Ok(Undefined) ELSE Err("$undefined")
    ELSE CollectDocument(
            [k \in 1..Len(d) |-> d[k][1]],
            [k \in 1..Len(d) |->
                IF d[k][2].t = "Document" THEN try_from_extended_document(d[k][2].d)
                ELSE Ok(d[k][2])])

---------------------------------------------------------------------------
(* Equality of values: #[derive(PartialEq)] on Bson.  Doubles compare as f64, *)
(* documents as ordered maps, entry by entry.                                *)

RECURSIVE BsonEq(_, _)
DocumentEq(c, d) ==
    /\ Len(c) = Len(d)
    /\ \A k \in 1..Len(c) : c[k][1] = d[k][1] /\ BsonEq(c[k][2], d[k][2])

BsonEq(v, w) ==
    IF v.t # w.t THEN FALSE
    ELSE CASE v.t = "Double" -> F64Eq(F64Of(v), F64Of(w))
           [] v.t = "Array" ->
                 Len(v.a) = Len(w.a) /\ \A k \in 1..Len(v.a) : BsonEq(v.a[k], w.a[k])
           [] v.t = "Document" -> DocumentEq(v.d, w.d)
           [] v.t = "JavaScriptCodeWithScope" -> v.code = w.code /\ DocumentEq(v.scope, w.scope)
           [] OTHER -> v = w

---------------------------------------------------------------------------
(* Inputs of the codec *)

\* The dates of the model: epoch milliseconds within MaxDateMillis of the
\* epoch, and the ends of the 64-bit range
MaxDateMillis == 1100
DateRange ==
    (-MaxDateMillis..MaxDateMillis) \cup {I64_MIN, I64_MIN + 1, -4300, 4300, I64_MAX - 1, I64_MAX}

Oid1 == <<1, 35, 69, 103, 137, 171, 205, 239, 0, 16, 254, 255>>

WrapperKeys ==
    {"$oid", "$symbol", "$regularExpression", "$numberInt", "$numberLong", "$numberDouble",
     "$binary", "$code", "$timestamp", "$date", "$minKey", "$maxKey", "$dbPointer",
     "$numberDecimal", "$undefined"}

\* A well-formed body for each wrapper key
WrapperSample(key) ==
    CASE key = "$oid" -> JStr(HexEncode(Oid1))
      [] key = "$symbol" -> JStr(<<"s">>)
      [] key = "$regularExpression" ->
            JObj(<< <<"pattern", JStr(<<"p">>)>>, <<"options", JStr(<<"m", "i">>)>> >>)
      [] key = "$numberInt" -> JStr(<<"7">>)
      [] key = "$numberLong" -> JStr(<<"-", "7">>)
      [] key = "$numberDouble" -> JStr(<<"1", ".", "5">>)
      [] key = "$binary" ->
            JObj(<< <<"base64", JStr(Base64Encode(<<1, 2>>))>>,
                    <<"subType", JStr(<<"8", "0">>)>> >>)
      [] key = "$code" -> JStr(<<"c">>)
      [] key = "$timestamp" -> JObj(<< <<"t", JInt(1)>>, <<"i", JInt(2)>> >>)
      [] key = "$date" -> JObj(<< <<"$numberLong", JStr(<<"5">>)>> >>)
      [] key = "$minKey" -> JInt(1)
      [] key = "$maxKey" -> JInt(1)
      [] key = "$dbPointer" ->
            JObj(<< <<"$ref", JStr(<<"n">>)>>,
                    <<"$id", JObj(<< <<"$oid", JStr(HexEncode(Oid1))>> >>)>> >>)
      [] key = "$numberDecimal" -> JStr(<<"1">>)
      [] key = "$undefined" -> JBool(TRUE)

\* The keys of each wrapper whose body is an object
BodyKeys(key) ==
    CASE key = "$regularExpression" -> {"pattern", "options"}
      [] key = "$binary" -> {"base64", "subType"}
      [] key = "$timestamp" -> {"t", "i"}
      [] key = "$date" -> {"$numberLong"}
      [] key = "$dbPointer" -> {"$ref", "$id"}
      [] OTHER -> {}
StructWrapperKeys == {key \in WrapperKeys : BodyKeys(key) # {}}

WithoutKey(o, key) ==
    LET keep == {k \in 1..Len(o) : o[k][1] # key}
        idx(n) == CHOOSE k \in keep : Cardinality({m \in keep : m < k}) = n - 1
    IN  [n \in 1..Cardinality(keep) |-> o[idx(n)]]

JsonWrapperInputs ==
    \* one wrapper, well formed
    {JObj(<< <<key, WrapperSample(key)>> >>) : key \in WrapperKeys}
    \cup {JObj(<< <<"$code", JStr(<<"c">>)>>, <<"$scope", JObj(<< <<"a", JInt(1)>> >>)>> >>),
          JObj(<< <<"$code", JStr(<<"c">>)>>, <<"$scope", JNull>> >>),
          JObj(<< <<"$code", JStr(<<"c">>)>>,
                  <<"$scope", JObj(<< <<"$oid", JInt(1)>> >>)>> >>)}
    \* the keys of two wrappers in one object
    \cup {JObj(<< <<k1, WrapperSample(k1)>>, <<k2, WrapperSample(k2)>> >>) :
            <<k1, k2>> \in {pr \in WrapperKeys \X WrapperKeys : pr[1] # pr[2]}}
    \* a wrapper key and a key outside its shape, before or after it
    \cup {JObj(<< <<key, WrapperSample(key)>>, <<"x", JInt(1)>> >>) : key \in WrapperKeys}
    \cup {JObj(<< <<"x", JInt(1)>>, <<key, WrapperSample(key)>> >>) : key \in WrapperKeys}
    \cup {JObj(<< <<"$scope", JObj(<<>>)>>, <<key, WrapperSample(key)>> >>) :
            key \in WrapperKeys}
    \* a body with an extra field, or with a field missing
    \cup {JObj(<< <<key, JObj(WrapperSample(key).o \o << <<"x", JInt(1)>> >>)>> >>) :
            key \in StructWrapperKeys}
    \cup {JObj(<< <<key, JObj(WithoutKey(WrapperSample(key).o, f))>> >>) :
            <<key, f>> \in {pr \in StructWrapperKeys \X
                              {"pattern", "options", "base64", "subType", "t", "i",
                               "$numberLong", "$ref", "$id"} : pr[2] \in BodyKeys(pr[1])}}
    \cup {JObj(<< <<"$dbPointer",
                    JObj(<< <<"$ref", JStr(<<"n">>)>>,
                            <<"$id", JObj(<< <<"$oid", JStr(HexEncode(Oid1))>>,
                                             <<"x", JInt(1)>> >>)>> >>)>> >>)}
    \* a body given by position
    \cup {JObj(<< <<"$regularExpression", JArr(<<JStr(<<"p">>), JStr(<<"x", "i">>)>>)>> >>),
          JObj(<< <<"$timestamp", JArr(<<JInt(1)>>)>> >>),
          JObj(<< <<"$timestamp", JArr(<<JInt(1), JInt(2), JInt(3)>>)>> >>)}

\* Values under $minKey / $maxKey
KeyMarkerJson ==
    {JInt(1), JInt(0), JInt(2), JInt(-1), JInt(U8_MAX + 1), JInt(I64_MAX), JFloat(Finite(FALSE, 1, <<>>)),
     JStr(<<"1">>), JBool(TRUE), JNull, JArr(<<JInt(1)>>), JObj(<< <<"$numberInt", JStr(<<"1">>)>> >>)}

NumberInputs ==
    {I64_MIN, I64_MIN + 1, I32_MIN - 1, I32_MIN, -1, 0, 1, I32_MAX, I32_MAX + 1, I64_MAX - 1,
     I64_MAX, I64_MAX + 1, I64_MAX + 2, U64_MAX - 1, U64_MAX}

DateJson(d) == JObj(<< <<"$date", JObj(<< <<"$numberLong", JStr(IntToString(d))>> >>)>> >>)

JsonPlainInputs ==
    {JInt(n) : n \in NumberInputs}
    \cup {JFloat(Finite(FALSE, 1, <<"5">>)), JFloat(Finite(TRUE, 0, <<>>)),
          JFloat(Finite(FALSE, U64_MAX + 1, <<>>)),
          JStr(<<"a">>), JBool(FALSE), JNull, JArr(<<>>), JObj(<<>>),
          JArr(<<JInt(1), JObj(<< <<"$numberInt", JStr(<<"1">>)>> >>)>>),
          JArr(<<JObj(<< <<"$numberInt", JStr(<<"x">>)>> >>), JInt(1)>>),
          JObj(<< <<"a", JInt(1)>> >>),
          JObj(<< <<"b", JInt(1)>>, <<"a", JStr(<<"a">>)>> >>),
          JObj(<< <<"a", JObj(<< <<"$numberInt", JStr(<<"1">>)>> >>)>> >>),
          JObj(<< <<"a", JObj(<< <<"b", JObj(<< <<"$symbol", JStr(<<"s">>)>> >>)>> >>)>> >>),
          JObj(<< <<"a", JArr(<<JObj(<< <<"$numberInt", JStr(<<"1">>)>> >>)>>)>> >>),
          JObj(<< <<"a", JInt(1)>>, <<"b", JInt(2)>>,
                  <<"c", JObj(<< <<"$numberInt", JStr(<<"1">>)>> >>)>> >>),
          JObj(<< <<"a", JObj(<< <<"$numberInt", JInt(1)>> >>)>> >>),
          JObj(<< <<"$numberInt", JStr(<<"1", "x">>)>> >>),
          JObj(<< <<"$numberInt", JStr(IntToString(I32_MAX + 1))>> >>),
          JObj(<< <<"$numberLong", JStr(IntToString(I64_MAX))>> >>),
          JObj(<< <<"$numberLong", JStr(IntToString(I64_MAX) \o <<"0">>)>> >>),
          JObj(<< <<"$numberDouble", JStr(<<"N", "a", "N">>)>> >>),
          JObj(<< <<"$numberDouble", JStr(<<"-", "N", "a", "N">>)>> >>),
          JObj(<< <<"$numberDouble", JStr(<<"x">>)>> >>),
          JObj(<< <<"$oid", JStr(<<"0", "0">>)>> >>),
          JObj(<< <<"$date", JStr(EpochDay \o <<"T", "0", "0", ":", "0", "1", ":", "0", "2", "Z">>)>> >>),
          JObj(<< <<"$date", JStr(<<"x">>)>> >>),
          JObj(<< <<"$date", JInt(5)>> >>),
          JObj(<< <<"$date", JInt(I32_MAX + 1)>> >>),
          JObj(<< <<"$undefined", JBool(FALSE)>> >>)}

\* Option strings of regular expressions: orderings of the same flags, a
\* repeated flag, none
RegexOptionInputs ==
    {<<>>, <<"i">>, <<"i", "m">>, <<"m", "i">>, <<"i", "m", "x">>, <<"x", "m", "i">>,
     <<"m", "x", "i">>, <<"x", "i", "x">>}

RegexJson(pattern, options) ==
    JObj(<< <<"$regularExpression",
              JObj(<< <<"pattern", JStr(pattern)>>, <<"options", JStr(options)>> >>)>> >>)

\* Fields of a $timestamp: around zero, around i32::MAX, around u32::MAX
TimestampFieldInputs == {-1, 0, 1, I32_MAX, I32_MAX + 1, U32_MAX, U32_MAX + 1}

TimestampJson(t, i) == JObj(<< <<"$timestamp", JObj(<< <<"t", JInt(t)>>, <<"i", JInt(i)>> >>)>> >>)

JsonInputs ==
    JsonWrapperInputs \cup JsonPlainInputs
    \cup {RegexJson(<<"p">>, o) : o \in RegexOptionInputs}
    \cup {TimestampJson(t, i) : t \in TimestampFieldInputs, i \in TimestampFieldInputs}
    \cup {DateJson(d) : d \in DateRange}
    \cup {JObj(<< <<"$minKey", jv>> >>) : jv \in KeyMarkerJson}
    \cup {JObj(<< <<"$maxKey", jv>> >>) : jv \in KeyMarkerJson}

\* Values handed to the encoders: every kind, the classes of doubles, the
\* ends of the integer ranges, containers one and two levels deep
BsonScalarInputs ==
    {Double(Finite(FALSE, 1, <<"5">>)), Double(Finite(TRUE, 2, <<>>)),
     Double(Finite(FALSE, 0, <<>>)), Double(Finite(TRUE, 0, <<>>)),
     Double(Finite(FALSE, 0, <<"0", "0", "0", "1">>)),
     Double(F64_INFINITY), Double(F64_NEG_INFINITY),
     Double(F64_NAN), Double(F64("nan", TRUE, 0, <<>>)),
     String(<<>>), String(<<"a", "b">>), Boolean(TRUE), Boolean(FALSE), Null,
     RegularExpression(<<"p">>, <<>>), RegularExpression(<<"p">>, <<"i", "m">>),
     RegularExpression(<<"p">>, <<"x", "i">>), RegularExpression(<<"p">>, <<"m", "x", "i">>),
     JavaScriptCode(<<"c">>),
     Int32(I32_MIN), Int32(-1), Int32(0), Int32(I32_MAX),
     Int64(I64_MIN), Int64(I32_MIN - 1), Int64(5), Int64(I32_MAX + 1), Int64(I64_MAX),
     Int64(I32_MIN), Int64(-1), Int64(0), Int64(I32_MAX),
     Timestamp(0, 0), Timestamp(U32_MAX, 1), Timestamp(1, U32_MAX),
     Binary(0, <<>>), Binary(2^7, <<1>>), Binary(5, <<U8_MAX, 0>>), Binary(0, <<1, 2, 3>>),
     Binary(U8_MAX, <<1, 2, 3, 4>>),
     ObjectId(Oid1),
     DateTime(0, 0), DateTime(1, 500 * NanosPerMilli), DateTime(62, 0),
     DateTime(-1, 0), DateTime(-2, 300 * NanosPerMilli), DateTime(0, 1),
     DateTime(Year10000 - 1, 0), DateTime(Year10000, 0),
     DateTime(Year10000 + 61, 7 * NanosPerMilli),
     DateTime(Year100000 - 1, 999 * NanosPerMilli), DateTime(Year100000, 0),
     DateTime(TruncDiv(I64_MAX, MillisPerSec), 0),
     DateTime(TruncDiv(I64_MIN, MillisPerSec), 999 * NanosPerMilli),
     Symbol(<<"s">>), Decimal128(<<"1">>), Undefined, MaxKey, MinKey,
     DbPointer(<<"n">>, Oid1)}

BsonInputs ==
    BsonScalarInputs
    \cup {Array(<<>>), Document(<<>>), JavaScriptCodeWithScope(<<"c">>, <<>>)}
    \cup {Array(<<v>>) : v \in BsonScalarInputs}
    \cup {Document(<< <<"a", v>> >>) : v \in BsonScalarInputs}
    \cup {JavaScriptCodeWithScope(<<"c">>, << <<"a", v>> >>) : v \in BsonScalarInputs}
    \cup {Array(<<Int32(1), Document(<< <<"b", Int64(2)>>, <<"a", Array(<<MinKey>>)>> >>)>>),
          Document(<< <<"b", Int32(1)>>, <<"a", Document(<< <<"c", Double(F64_NAN)>> >>)>> >>),
          Document(<< <<"$symbol", Int32(1)>> >>),
          Document(<< <<"$oid", String(HexEncode(Oid1))>> >>),
          Document(<< <<"a", Document(<< <<"$numberInt", String(<<"1">>)>> >>)>> >>),
          Document(<< <<"$scope", Int32(1)>> >>),
          JavaScriptCodeWithScope(<<"c">>, << <<"$minKey", Int32(1)>> >>)}

\* Bson values under $minKey / $maxKey of a Document
KeyMarkerBson ==
    {Int32(1), Int64(1), Int32(0), Int32(2), Int64(0), Int64(I64_MAX), String(<<"1">>),
     Boolean(TRUE), Double(Finite(FALSE, 1, <<>>)), Null, Document(<<>>)}

\* Documents handed to the Document decode paths as they are
DocInputs ==
    {Document(<< <<"$date", Int64(d)>> >>) : d \in DateRange}
    \cup {Document(<< <<"$timestamp", Document(<< <<"t", Int64(t)>>, <<"i", Int64(1)>> >>)>> >>) :
            t \in TimestampFieldInputs}
    \cup {Document(<< <<"$timestamp", Document(<< <<"t", Int32(1)>>, <<"i", Int32(i)>> >>)>> >>) :
            i \in {-1, 0, I32_MAX, I32_MIN}}
    \cup {Document(<< <<"$minKey", v>> >>) : v \in KeyMarkerBson}
    \cup {Document(<< <<"$maxKey", v>> >>) : v \in KeyMarkerBson}
    \cup {Document(<< <<"$dbPointer",
                        Document(<< <<"$ref", String(<<"n">>)>>, <<"$id", ObjectId(Oid1)>> >>)>> >>),
          Document(<< <<"$date", Int32(5)>> >>),
          Document(<< <<"$timestamp", Document(<< <<"t", Int32(-1)>>, <<"i", Int32(2)>> >>)>> >>),
          Document(<< <<"$timestamp", Document(<< <<"t", Int64(1)>>, <<"i", Int64(2)>> >>)>> >>),
          Document(<< <<"$code", String(<<"c">>)>>, <<"a", Int32(1)>> >>),
          Document(<< <<"$code", String(<<"c">>)>>, <<"$scope", Document(<<>>)>>,
                      <<"a", Int32(1)>> >>),
          Document(<< <<"$code", String(<<"c">>)>>, <<"$scope", Int32(1)>> >>),
          Document(<< <<"$undefined", Boolean(TRUE)>> >>),
          Document(<< <<"a", Array(<<Document(<< <<"$minKey", Int32(1)>> >>)>>)>> >>),
          Document(<< <<"a", Document(<< <<"$minKey", Int32(1)>> >>)>> >>),
          Document(<< <<"a", Int32(1)>>, <<"b", Int32(2)>>,
                      <<"c", Document(<< <<"$minKey", Int32(1)>> >>)>> >>)}

---------------------------------------------------------------------------
(* The codec as a state machine: a value is encoded, or a JSON value or a   *)
(* Document is given; then each decode path runs on it once.                *)

NoDocument == [t |-> "NoDocument"]
NoValue == [t |-> "NoValue"]

NoBD == [stage |-> "None"]

TsIdle == target = "little" /\ chain = <<>>

RawIdle ==
    /\ wire = <<>> /\ bytes_read = 0 /\ current_type = "EmbeddedDocument" /\ stack = <<>>
    /\ bd = NoBD /\ status = "idle" /\ err = "" /\ events = <<>>

Init ==
    /\ \/ value \in BsonInputs /\ json = JNull /\ enc = "none" /\ doc = NoDocument
       \/ value = NoValue /\ json \in JsonInputs /\ enc = "input" /\ doc = NoDocument
       \/ value = NoValue /\ json = JNull /\ enc = "document" /\ doc \in DocInputs
    /\ r_try_from = NotRun /\ r_from_ext = NotRun /\ r_try_ext = NotRun
    /\ RawIdle
    /\ TsIdle

\* Bson::into_canonical_extjson(value)
IntoCanonicalExtjson ==
    /\ enc = "none"
    /\ json' = into_canonical_extjson(value)
    /\ enc' = "canonical"
    /\ UNCHANGED <<value, doc, r_try_from, r_from_ext, r_try_ext>>
    /\ UNCHANGED <<raw_vars, ts_vars>>

\* Bson::into_relaxed_extjson(value)
IntoRelaxedExtjson ==
    /\ enc = "none"
    /\ json' = into_relaxed_extjson(value)
    /\ enc' = "relaxed"
    /\ UNCHANGED <<value, doc, r_try_from, r_from_ext, r_try_ext>>
    /\ UNCHANGED <<raw_vars, ts_vars>>

HasJson == enc \in {"canonical", "relaxed", "input"} /\ json # JPanic

\* Bson::try_from(json)
TryFrom ==
    /\ HasJson
    /\ r_try_from = NotRun
    /\ r_try_from' = try_from(json)
    /\ UNCHANGED <<value, json, enc, doc, r_from_ext, r_try_ext>>
    /\ UNCHANGED <<raw_vars, ts_vars>>

\* Bson::from_value_no_parse(json), of a JSON object: the Document with the
\* same entries
FromValueNoParse ==
    /\ HasJson
    /\ json.j = "obj"
    /\ doc = NoDocument
    /\ doc' = from_value_no_parse(json)
    /\ UNCHANGED <<value, json, enc, r_try_from, r_from_ext, r_try_ext>>
    /\ UNCHANGED <<raw_vars, ts_vars>>

\* Bson::from_extended_document(doc)
FromExtendedDocument ==
    /\ doc.t = "Document"
    /\ r_from_ext = NotRun
    /\ r_from_ext' = from_extended_document(doc.d)
    /\ UNCHANGED <<value, json, enc, doc, r_try_from, r_try_ext>>
    /\ UNCHANGED <<raw_vars, ts_vars>>

\* Bson::try_from_extended_document(doc)
TryFromExtendedDocument ==
    /\ doc.t = "Document"
    /\ r_try_ext = NotRun
    /\ r_try_ext' = try_from_extended_document(doc.d)
    /\ UNCHANGED <<value, json, enc, doc, r_try_from, r_from_ext>>
    /\ UNCHANGED <<raw_vars, ts_vars>>

Next ==
    \/ IntoCanonicalExtjson
    \/ IntoRelaxedExtjson
    \/ TryFrom
    \/ FromValueNoParse
    \/ FromExtendedDocument
    \/ TryFromExtendedDocument

Spec == Init /\ [][Next]_vars

---------------------------------------------------------------------------
(* Properties of the extended-JSON codec *)

\* A value the canonical encoding can give back: no NaN (a NaN equals
\* nothing), regex options in ascending order, dates of whole milliseconds,
\* no Decimal128, and no wrapper key in a document (the scope of a
\* JavaScriptCodeWithScope may hold one at its top level: its entries are
\* decoded one by one)
RECURSIVE CanonicalStable(_)
CanonicalStable(v) ==
    CASE v.t = "Double" -> ~is_nan(F64Of(v))
      [] v.t = "RegularExpression" -> v.options = SortChars(v.options)
      [] v.t = "DateTime" -> v.nanos % NanosPerMilli = 0
      [] v.t = "Decimal128" -> FALSE
      [] v.t = "Array" -> \A k \in 1..Len(v.a) : CanonicalStable(v.a[k])
      [] v.t = "Document" ->
            \A k \in 1..Len(v.d) : v.d[k][1] \notin WrapperKeys /\ CanonicalStable(v.d[k][2])
      [] v.t = "JavaScriptCodeWithScope" ->
            \A k \in 1..Len(v.scope) : CanonicalStable(v.scope[k][2])
      [] OTHER -> TRUE

RECURSIVE HoldsDecimal128(_)
HoldsDecimal128(v) ==
    CASE v.t = "Decimal128" -> TRUE
      [] v.t = "Array" -> \E k \in 1..Len(v.a) : HoldsDecimal128(v.a[k])
      [] v.t = "Document" -> \E k \in 1..Len(v.d) : HoldsDecimal128(v.d[k][2])
      [] v.t = "JavaScriptCodeWithScope" ->
            \E k \in 1..Len(v.scope) : HoldsDecimal128(v.scope[k][2])
      [] OTHER -> FALSE

RoundTripGives(v) == IsOk(r_try_from) /\ BsonEq(r_try_from.val, v)

\* C1 (as amended): for every value v that holds no NaN, no regex with
\* unsorted options, no date with a fraction of a millisecond, no Decimal128
\* and no document with a wrapper key, the canonical encoding of v is a JSON
\* value and Bson::try_from of it returns Ok(w) with w == v.
C1_CanonicalRoundTrip ==
    (enc = "canonical" /\ CanonicalStable(value)) =>
        /\ json # JPanic
        /\ r_try_from # NotRun => RoundTripGives(value)

C1_Witness ==
    /\ enc = "canonical" /\ CanonicalStable(value)
    /\ value.t = "Array" /\ Len(value.a) = 2 /\ value.a[2].t = "Document"
    /\ RoundTripGives(value)

\* C1 as stated: for every value v of every kind (Decimal128 excluded),
\* decoding the canonical extended JSON of v gives v back.
C1_RoundTripEveryValue ==
    (enc = "canonical" /\ ~HoldsDecimal128(value) /\ r_try_from # NotRun) =>
        RoundTripGives(value)

\* The dispatch order as the specification lists it
DispatchOrder ==
    <<"$oid", "$symbol", "$regularExpression", "$numberInt", "$numberLong", "$numberDouble",
      "$binary", "$code", "$timestamp", "$date", "$minKey", "$maxKey", "$dbPointer",
      "$numberDecimal", "$undefined">>

WrapperKeysOf(o) == {key \in Keys(o) : \E k \in 1..Len(DispatchOrder) : DispatchOrder[k] = key}

FirstWrapperKey(o) ==
    DispatchOrder[CHOOSE k \in 1..Len(DispatchOrder) :
                     /\ DispatchOrder[k] \in Keys(o)
                     /\ \A n \in 1..(k - 1) : DispatchOrder[n] \notin Keys(o)]

WrapperRule(key, jv) ==
    CASE key = "$oid" -> TryFromOid(jv)
      [] key = "$symbol" -> TryFromSymbol(jv)
      [] key = "$regularExpression" -> TryFromRegex(jv)
      [] key = "$numberInt" -> TryFromInt32(jv)
      [] key = "$numberLong" -> TryFromInt64(jv)
      [] key = "$numberDouble" -> TryFromDouble(jv)
      [] key = "$binary" -> TryFromBinary(jv)
      [] key = "$code" -> TryFromCode(jv)
      [] key = "$timestamp" -> TryFromTimestamp(jv)
      [] key = "$date" -> TryFromDate(jv)
      [] key = "$minKey" -> TryFromMinKey(jv)
      [] key = "$maxKey" -> TryFromMaxKey(jv)
      [] key = "$dbPointer" -> TryFromDbPointer(jv)
      [] key = "$numberDecimal" -> TryFromDecimal128(jv)
      [] key = "$undefined" -> TryFromUndefined(jv)

JsonObjectDecoded == HasJson /\ json.j = "obj" /\ r_try_from # NotRun

\* C2: Bson::try_from of a JSON object is the outcome of the rules of the
\* wrapper whose key comes first in the fixed order among the keys present;
\* with the keys of two wrappers that outcome is the first wrapper's error;
\* with no wrapper key the object decodes as a plain document, entry by entry.
C2_FirstWrapperDecides ==
    JsonObjectDecoded =>
        IF WrapperKeysOf(json.o) = {}
        THEN /\ r_try_from = Document_from_ext_json(json.o)
             /\ IsOk(r_try_from) =>
                   /\ r_try_from.val.t = "Document"
                   /\ [k \in 1..Len(json.o) |-> json.o[k][1]]
                        = [k \in 1..Len(r_try_from.val.d) |-> r_try_from.val.d[k][1]]
        ELSE /\ r_try_from = WrapperRule(FirstWrapperKey(json.o), json)
             /\ Cardinality(WrapperKeysOf(json.o)) >= 2 =>
                   r_try_from = Err(FirstWrapperKey(json.o))

C2_Witness ==
    /\ JsonObjectDecoded
    /\ Len(json.o) = 2 /\ json.o[1][1] = "$symbol" /\ json.o[2][1] = "$oid"
    /\ r_try_from = Err("$oid")

\* A wrapper key next to a key outside its shape; $scope belongs to $code
SiblingMismatch(o) ==
    \E key \in WrapperKeysOf(o) :
        \E other \in Keys(o) : other # key /\ ~(key = "$code" /\ other = "$scope")

\* A wrapper body that is an object with a field missing or a field too many
BodyMismatch(o) ==
    \/ \E key \in WrapperKeysOf(o) :
          /\ BodyKeys(key) # {}
          /\ Get(o, key).j = "obj"
          /\ Keys(Get(o, key).o) # BodyKeys(key)
    \/ /\ ContainsKey(o, "$dbPointer")
       /\ Get(o, "$dbPointer").j = "obj"
       /\ ContainsKey(Get(o, "$dbPointer").o, "$id")
       /\ Get(Get(o, "$dbPointer").o, "$id").j = "obj"
       /\ Keys(Get(Get(o, "$dbPointer").o, "$id").o) # {"$oid"}

\* C3: Bson::try_from returns a decode error for every JSON object with a
\* wrapper key and a key outside that wrapper's shape, and for every wrapper
\* body with a missing or an extra field.
C3_ShapeMismatchIsError ==
    (JsonObjectDecoded /\ (SiblingMismatch(json.o) \/ BodyMismatch(json.o))) =>
        IsErr(r_try_from)

C3_Witness ==
    /\ JsonObjectDecoded
    /\ Len(json.o) = 1 /\ json.o[1][1] = "$timestamp"
    /\ BodyMismatch(json.o) /\ ContainsKey(json.o[1][2].o, "x")
    /\ IsErr(r_try_from)

\* C4 as stated: a plain JSON integer decodes to Int32 in the signed 32-bit
\* range, else to Int64 in the signed 64-bit range, else to a Double of the
\* same numeric value.
C4_NumberPromotion ==
    (HasJson /\ json.j = "int" /\ r_try_from # NotRun) =>
        r_try_from =
            Ok(IF json.n >= I32_MIN /\ json.n <= I32_MAX THEN Int32(json.n)
               ELSE IF json.n >= I64_MIN /\ json.n <= I64_MAX THEN Int64(json.n)
               ELSE Double(Finite(json.n < 0, json.n, <<>>)))

IsCanonicalDateJson(jv) ==
    /\ jv.j = "obj" /\ Len(jv.o) = 1 /\ jv.o[1][1] = "$date"
    /\ jv.o[1][2].j = "obj" /\ Len(jv.o[1][2].o) = 1
    /\ jv.o[1][2].o[1][1] = "$numberLong" /\ jv.o[1][2].o[1][2].j = "str"
    /\ ParseInt(jv.o[1][2].o[1][2].s, I64_MIN, I64_MAX).ok
JsonDateMillis(jv) == ParseInt(jv.o[1][2].o[1][2].s, I64_MIN, I64_MAX).i

IsDateDocument(v) ==
    v.t = "Document" /\ Len(v.d) = 1 /\ v.d[1][1] = "$date" /\ v.d[1][2].t = "Int64"

\* r is a DateTime of s seconds and m milliseconds with s*1000 + m = d and
\* 0 <= m <= 999, built with a nanosecond argument m*1000000 below 2^32
FlooredSplit(r, d) ==
    /\ IsOk(r) /\ r.val.t = "DateTime"
    /\ LET m == r.val.nanos \div NanosPerMilli
       IN  /\ r.val.nanos = m * NanosPerMilli
           /\ r.val.secs * MillisPerSec + m = d
           /\ 0 <= m /\ m <= MillisPerSec - 1
           /\ r.val.nanos \div 4 < 2^30

\* C5: each decode path splits the milliseconds d of a $date wrapper into
\* seconds s and milliseconds m with s*1000 + m = d and 0 <= m <= 999, and
\* the nanosecond argument m*1000000 stays below 2^32.
C5_DateSplitFloors ==
    /\ (HasJson /\ IsCanonicalDateJson(json) /\ r_try_from # NotRun) =>
          FlooredSplit(r_try_from, JsonDateMillis(json))
    /\ (IsDateDocument(doc) /\ r_from_ext # NotRun) => FlooredSplit(r_from_ext, doc.d[1][2].i)
    /\ (IsDateDocument(doc) /\ r_try_ext # NotRun) => FlooredSplit(r_try_ext, doc.d[1][2].i)

C5_Witness ==
    /\ IsDateDocument(doc) /\ doc.d[1][2].i = -4300
    /\ r_from_ext = Ok(DateTime(-5, 700 * NanosPerMilli))
    /\ r_try_ext = r_from_ext

IsKeyMarkerJson(jv) ==
    jv.j = "obj" /\ Len(jv.o) = 1 /\ jv.o[1][1] \in {"$minKey", "$maxKey"}
IsKeyMarkerDocument(v) ==
    v.t = "Document" /\ Len(v.d) = 1 /\ v.d[1][1] \in {"$minKey", "$maxKey"}
KeyMarker(key) == IF key = "$minKey" THEN MinKey ELSE MaxKey

\* C6 as stated: on every decode path an object whose only key is $minKey or
\* $maxKey decodes to MinKey or MaxKey exactly when its value is the integer
\* 1, and to a decode error for every other value.
C6_KeyMarkerOneOrError ==
    /\ (HasJson /\ IsKeyMarkerJson(json) /\ r_try_from # NotRun) =>
          IF json.o[1][2] = JInt(1) THEN r_try_from = Ok(KeyMarker(json.o[1][1]))
          ELSE IsErr(r_try_from)
    /\ (IsKeyMarkerDocument(doc) /\ r_from_ext # NotRun) =>
          IF doc.d[1][2] \in {Int32(1), Int64(1)} THEN r_from_ext = Ok(KeyMarker(doc.d[1][1]))
          ELSE IsErr(r_from_ext)
    /\ (IsKeyMarkerDocument(doc) /\ r_try_ext # NotRun) =>
          IF doc.d[1][2] \in {Int32(1), Int64(1)} THEN r_try_ext = Ok(KeyMarker(doc.d[1][1]))
          ELSE IsErr(r_try_ext)

\* C9 as stated: for a JSON object and the Document with the same entries,
\* Bson::try_from and try_from_extended_document return the same value or
\* both return a decode error.
C9_DocumentPathAgrees ==
    (/\ HasJson /\ json.j = "obj" /\ doc = from_value_no_parse(json)
     /\ r_try_from # NotRun /\ r_try_ext # NotRun) =>
        \/ IsOk(r_try_from) /\ IsOk(r_try_ext) /\ BsonEq(r_try_from.val, r_try_ext.val)
        \/ IsErr(r_try_from) /\ IsErr(r_try_ext)

\* No document of v, inside documents and arrays, is one that the wrapper
\* table converts
RECURSIVE NoWrapperLeft(_)
NoWrapperLeft(v) ==
    CASE v.t = "Document" ->
            /\ FromExtendedWrapper(v.d) = NotRun
            /\ \A k \in 1..Len(v.d) : NoWrapperLeft(v.d[k][2])
      [] v.t = "Array" -> \A k \in 1..Len(v.a) : NoWrapperLeft(v.a[k])
      [] OTHER -> TRUE

\* C10 as stated: the value either Document decode path returns holds no
\* unconverted wrapper document, at any depth, in documents and in arrays.
C10_NoWrapperLeftUnconverted ==
    /\ IsOk(r_from_ext) => NoWrapperLeft(r_from_ext.val)
    /\ IsOk(r_try_ext) => NoWrapperLeft(r_try_ext.val)

---------------------------------------------------------------------------
(* The streaming decoder (src/src/de/raw.rs): the byte readers it calls *)

\* ElementType::from(tag): the registry of type tags; None for any other byte
ElementType_from(tag) ==
    CASE tag = 1 -> "Double"
      [] tag = 2 -> "String"
      [] tag = 3 -> "EmbeddedDocument"
      [] tag = 4 -> "Array"
      [] tag = 5 -> "Binary"
      [] tag = 6 -> "Undefined"
      [] tag = 7 -> "ObjectId"
      [] tag = 8 -> "Boolean"
      [] tag = 9 -> "DateTime"
      [] tag = 10 -> "Null"
      [] tag = 11 -> "RegularExpression"
      [] tag = 12 -> "DbPointer"
      [] tag = 13 -> "JavaScriptCode"
      [] tag = 14 -> "Symbol"
      [] tag = 15 -> "JavaScriptCodeWithScope"
      [] tag = 16 -> "Int32"
      [] tag = 17 -> "Timestamp"
      [] tag = 18 -> "Int64"
      [] tag = 19 -> "Decimal128"
      [] tag = 255 -> "MinKey"
      [] tag = 127 -> "MaxKey"
      [] OTHER -> "None"

\* A read through CountReader: n bytes from offset pos, or an error at the end
\* of the input, every byte that was left having been read and counted
ReadFail(w) == [ok |-> FALSE, n |-> 0, bs |-> <<>>, pos |-> Len(w)]
ReadExact(w, pos, n) ==
    IF pos + n <= Len(w)
    THEN [ok |-> TRUE, n |-> 0, bs |-> SubSeq(w, pos + 1, pos + n), pos |-> pos + n]
    ELSE ReadFail(w)

read_u8(w, pos) ==
    IF pos + 1 <= Len(w)
    THEN [ok |-> TRUE, n |-> w[pos + 1], bs |-> <<w[pos + 1]>>, pos |-> pos + 1]
    ELSE ReadFail(w)

\* four little-endian bytes as a signed 32-bit integer
LittleEndianI32(bs) ==
    bs[1] + 2^8 * bs[2] + 2^16 * bs[3]
    + 2^24 * (IF bs[4] >= 2^7 THEN bs[4] - 2^8 ELSE bs[4])

read_i32(w, pos) ==
    IF pos + 4 <= Len(w)
    THEN [ok |-> TRUE, n |-> LittleEndianI32(SubSeq(w, pos + 1, pos + 4)),
          bs |-> SubSeq(w, pos + 1, pos + 4), pos |-> pos + 4]
    ELSE ReadFail(w)

\* read_cstring: the bytes up to the next NUL, which is read too
read_cstring(w, pos) ==
    IF \E k \in (pos + 1)..Len(w) : w[k] = 0
    THEN LET nul == CHOOSE k \in (pos + 1)..Len(w) :
                        w[k] = 0 /\ \A m \in (pos + 1)..(k - 1) : w[m] # 0
         IN  [ok |-> TRUE, n |-> 0, bs |-> SubSeq(w, pos + 1, nul - 1), pos |-> nul]
    ELSE ReadFail(w)

\* read_string: a length, that many bytes less one, and the NUL; a length
\* below 1 is an error
read_string(w, pos) ==
    LET len == read_i32(w, pos)
        text == ReadExact(w, len.pos, len.n - 1)
        nul == read_u8(w, text.pos)
    IN  IF ~len.ok THEN len
        ELSE IF len.n < 1 THEN [ok |-> FALSE, n |-> 0, bs |-> <<>>, pos |-> len.pos]
        ELSE IF ~text.ok THEN text
        ELSE IF ~nul.ok THEN nul
        ELSE [ok |-> TRUE, n |-> 0, bs |-> text.bs, pos |-> nul.pos]

---------------------------------------------------------------------------
(* The access objects, and what the visitor is handed *)

MapAccess(length_remaining) ==
    [access |-> "MapAccess", length_remaining |-> length_remaining, pc |-> "key",
     start_bytes |-> 0]
ArrayAccess(length_remaining) ==
    [access |-> "ArrayAccess", length_remaining |-> length_remaining, pc |-> "element",
     start_bytes |-> 0]
ObjectIdAccess(oid) == [access |-> "ObjectIdAccess", oid |-> oid, visited |-> FALSE, pc |-> "key"]
BinaryAccess == [access |-> "BinaryAccess", pc |-> "key"]
NoAccess == [access |-> "None"]

BD(subtype, bytes, stage) == [subtype |-> subtype, bytes |-> bytes, stage |-> stage]

\* visit_* calls, and the keys yielded; at is bytes_read when the call is made
Visit(what, at) == [e |-> what, at |-> at]
VisitBytes(what, bs, at) == [e |-> what, bs |-> bs, at |-> at]
VisitI32(n, at) == [e |-> "i32", n |-> n, at |-> at]
VisitBool(b, at) == [e |-> "bool", b |-> b, at |-> at]
VisitText(what, text, at) == [e |-> what, text |-> text, at |-> at]

\* What a call of deserialize_any comes to: a value handed over ("Ok"), an
\* access object handed to visit_map / visit_seq ("Push"), an error, a panic
Outcome(kind, pos, evs, frame, newbd, msg) ==
    [kind |-> kind, pos |-> pos, evs |-> evs, frame |-> frame, bd |-> newbd, msg |-> msg]
Delivered(pos, ev) == Outcome("Ok", pos, <<ev>>, NoAccess, NoBD, "")
IoError(pos) == Outcome("Err", pos, <<>>, NoAccess, NoBD, "io error")
Panicked(pos, msg) == Outcome("Panic", pos, <<>>, NoAccess, NoBD, msg)

\* BinarySubtype::from(byte) is Generic for 0 only
GenericSubtype == 0

\* Deserializer::deserialize_any, up to the call of the visitor
deserialize_any(ty, w, pos) ==
    CASE ty = "Int32" ->
            LET r == read_i32(w, pos)
            IN  IF r.ok THEN Delivered(r.pos, VisitI32(r.n, r.pos)) ELSE IoError(r.pos)
      [] ty = "Int64" ->
            LET r == ReadExact(w, pos, 8)
            IN  IF r.ok THEN Delivered(r.pos, VisitBytes("i64", r.bs, r.pos)) ELSE IoError(r.pos)
      [] ty = "Double" ->
            LET r == ReadExact(w, pos, 8)
            IN  IF r.ok THEN Delivered(r.pos, VisitBytes("f64", r.bs, r.pos)) ELSE IoError(r.pos)
      [] ty = "String" ->
            LET r == read_string(w, pos)
            IN  IF r.ok THEN Delivered(r.pos, VisitBytes("string", r.bs, r.pos))
                ELSE IoError(r.pos)
      [] ty = "Boolean" ->
            LET r == read_u8(w, pos)
            IN  IF r.ok THEN Delivered(r.pos, VisitBool(r.n = 1, r.pos)) ELSE IoError(r.pos)
      [] ty = "Null" -> Delivered(pos, Visit("none", pos))
      [] ty = "ObjectId" ->
            LET r == ReadExact(w, pos, OidLen)
            IN  IF r.ok
                THEN Outcome("Push", r.pos, <<Visit("map", r.pos)>>, ObjectIdAccess(r.bs), NoBD, "")
                ELSE IoError(r.pos)
      [] ty = "EmbeddedDocument" ->
            LET r == read_i32(w, pos)
            IN  IF r.ok
                THEN Outcome("Push", r.pos, <<Visit("map", r.pos)>>, MapAccess(r.n - 4), NoBD, "")
                ELSE IoError(r.pos)
      [] ty = "Array" ->
            LET r == read_i32(w, pos)
            IN  IF r.ok
                THEN Outcome("Push", r.pos, <<Visit("seq", r.pos)>>, ArrayAccess(r.n - 4), NoBD, "")
                ELSE IoError(r.pos)
      [] ty = "Binary" ->
            LET length == read_i32(w, pos)
                subtype == read_u8(w, length.pos)
                bytes == ReadExact(w, subtype.pos, length.n)
            IN  IF ~length.ok THEN IoError(length.pos)
                ELSE IF ~subtype.ok THEN IoError(subtype.pos)
                ELSE IF length.n < 0
                     THEN Panicked(subtype.pos, "called Result::unwrap() on an Err value")
                ELSE IF ~bytes.ok THEN IoError(bytes.pos)
                ELSE IF subtype.n = GenericSubtype
                     THEN Delivered(bytes.pos, VisitBytes("byte_buf", bytes.bs, bytes.pos))
                ELSE Outcome("Push", bytes.pos, <<Visit("map", bytes.pos)>>, BinaryAccess,
                             BD(subtype.n, bytes.bs, "TopLevel"), "")
      [] ty = "Undefined" ->
            \* a MapDeserializer over doc! { "$undefined": 1 }
            Outcome("Ok", pos,
                    <<Visit("map", pos), VisitText("key", "$undefined", pos), VisitI32(1, pos),
                      Visit("end", pos)>>,
                    NoAccess, NoBD, "")
      [] ty = "DateTime" ->
            \* the arm is empty: nothing is read and no visitor call is made
            Outcome("Ok", pos, <<>>, NoAccess, NoBD, "")
      [] OTHER -> Panicked(pos, "not yet implemented")

---------------------------------------------------------------------------
(* The streaming decoder as a state machine.  The visitor is the one a
   document or a sequence is built with: it reads a key, then its value,
   until the access object says it is over, and it hands an error on. *)

Top == stack[Len(stack)]
Rest == SubSeq(stack, 1, Len(stack) - 1)
SetTop(frame) == Rest \o <<frame>>

\* the status once the visitor of the innermost access object has returned
AfterOk(rest) == IF rest = <<>> THEN "done" ELSE "running"
AfterErr(rest) == IF rest = <<>> THEN "error" ELSE "unwinding"

Goes(pos, ty, stk, st, msg, evs, newbd) ==
    /\ bytes_read' = pos
    /\ current_type' = ty
    /\ stack' = stk
    /\ status' = st
    /\ err' = msg
    /\ events' = events \o evs
    /\ bd' = newbd
    /\ UNCHANGED wire
    /\ UNCHANGED <<codec_vars, ts_vars>>

RanOutOfBytes == "ran out of bytes!"
StillHaveLength == "got null byte but still have length remaining"
UnwrapNone == "called Option::unwrap() on a None value"

\* Deserializer::new(reader), then T::deserialize(&mut de)
Deserialize ==
    /\ status = "start"
    /\ LET out == deserialize_any(current_type, wire, bytes_read)
       IN  CASE out.kind = "Push" ->
                    Goes(out.pos, current_type, <<out.frame>>, "running", err, out.evs, out.bd)
             [] out.kind = "Ok" ->
                    Goes(out.pos, current_type, <<>>, "done", err, out.evs, bd)
             [] out.kind = "Err" ->
                    Goes(out.pos, current_type, <<>>, "error", out.msg, <<>>, bd)
             [] out.kind = "Panic" ->
                    Goes(out.pos, current_type, <<>>, "panic", out.msg, <<>>, bd)

\* MapAccess_next_key_seed without the assignment of current_type
MapAccess_next_key_seed_KeepsType ==
    /\ status = "running" /\ stack # <<>>
    /\ Top.access = "MapAccess" /\ Top.pc = "key"
    /\ LET tag == read_u8(wire, bytes_read)
           afterTag == Top.length_remaining - 1
           key == read_cstring(wire, tag.pos)
           afterKey == afterTag - (key.pos - tag.pos)
       IN  IF ~tag.ok
           THEN Goes(tag.pos, current_type, Rest, AfterErr(Rest), "io error", <<>>, bd)
           ELSE IF tag.n = 0
           THEN IF afterTag # 0
                THEN Goes(tag.pos, current_type,
                          SetTop([Top EXCEPT !.length_remaining = afterTag]),
                          "panic", StillHaveLength, <<>>, bd)
                ELSE Goes(tag.pos, current_type, Rest, AfterOk(Rest), err,
                          <<Visit("end", tag.pos)>>, bd)
           ELSE IF afterKey <= 0
           THEN Goes(key.pos, current_type, SetTop([Top EXCEPT !.length_remaining = afterKey]),
                     "panic", RanOutOfBytes,
                     IF key.ok THEN <<VisitBytes("key", key.bs, key.pos)>> ELSE <<>>, bd)
           ELSE IF ~key.ok
           THEN Goes(key.pos, current_type, Rest, AfterErr(Rest), "io error", <<>>, bd)
           ELSE Goes(key.pos, current_type,
                     SetTop([Top EXCEPT !.length_remaining = afterKey, !.pc = "value"]),
                     "running", err, <<VisitBytes("key", key.bs, key.pos)>>, bd)

MapAccess_next_key_seed ==
    /\ status = "running" /\ stack # <<>>
    /\ Top.access = "MapAccess" /\ Top.pc = "key"
    /\ LET tag == read_u8(wire, bytes_read)
           afterTag == Top.length_remaining - 1
           ty == ElementType_from(tag.n)
           key == read_cstring(wire, tag.pos)
           afterKey == afterTag - (key.pos - tag.pos)
       IN  IF ~tag.ok
           THEN Goes(tag.pos, current_type, Rest, AfterErr(Rest), "io error", <<>>, bd)
           ELSE IF tag.n = 0
           THEN IF afterTag # 0
                THEN Goes(tag.pos, current_type,
                          SetTop([Top EXCEPT !.length_remaining = afterTag]),
                          "panic", StillHaveLength, <<>>, bd)
                ELSE Goes(tag.pos, current_type, Rest, AfterOk(Rest), err,
                          <<Visit("end", tag.pos)>>, bd)
           ELSE IF ty = "None"
           THEN Goes(tag.pos, current_type,
                     SetTop([Top EXCEPT !.length_remaining = afterTag]),
                     "panic", UnwrapNone, <<>>, bd)
           ELSE IF afterKey <= 0
           THEN Goes(key.pos, ty, SetTop([Top EXCEPT !.length_remaining = afterKey]),
                     "panic", RanOutOfBytes,
                     IF key.ok THEN <<VisitBytes("key", key.bs, key.pos)>> ELSE <<>>, bd)
           ELSE IF ~key.ok
           THEN Goes(key.pos, ty, Rest, AfterErr(Rest), "io error", <<>>, bd)
           ELSE Goes(key.pos, ty,
                     SetTop([Top EXCEPT !.length_remaining = afterKey, !.pc = "value"]),
                     "running", err, <<VisitBytes("key", key.bs, key.pos)>>, bd)

\* up to the return of seed.deserialize, or to the visit_map / visit_seq it makes
MapAccess_next_value_seed ==
    /\ status = "running" /\ stack # <<>>
    /\ Top.access = "MapAccess" /\ Top.pc = "value"
    /\ LET out == deserialize_any(current_type, wire, bytes_read)
           remaining == Top.length_remaining - (out.pos - bytes_read)
       IN  CASE out.kind = "Panic" ->
                    Goes(out.pos, current_type, stack, "panic", out.msg, <<>>, bd)
             [] out.kind = "Push" ->
                    Goes(out.pos, current_type,
                         SetTop([Top EXCEPT !.pc = "in_value", !.start_bytes = bytes_read])
                             \o <<out.frame>>,
                         "running", err, out.evs, IF out.bd = NoBD THEN bd ELSE out.bd)
             [] out.kind = "Ok" ->
                    IF remaining <= 0
                    THEN Goes(out.pos, current_type,
                              SetTop([Top EXCEPT !.length_remaining = remaining]),
                              "panic", RanOutOfBytes, out.evs, bd)
                    ELSE Goes(out.pos, current_type,
                              SetTop([Top EXCEPT !.length_remaining = remaining, !.pc = "key"]),
                              "running", err, out.evs, bd)
             [] out.kind = "Err" ->
                    IF remaining <= 0
                    THEN Goes(out.pos, current_type,
                              SetTop([Top EXCEPT !.length_remaining = remaining]),
                              "panic", RanOutOfBytes, <<>>, bd)
                    ELSE Goes(out.pos, current_type, Rest, AfterErr(Rest), out.msg, <<>>, bd)

\* MapAccess_next_value_seed_return with the bytes of the nested value left
\* out of the counter
MapAccess_next_value_seed_return_Uncharged ==
    /\ status \in {"running", "unwinding"} /\ stack # <<>>
    /\ Top.access = "MapAccess" /\ Top.pc = "in_value"
    /\ IF status = "unwinding"
       THEN Goes(bytes_read, current_type, Rest, AfterErr(Rest), err, <<>>, bd)
       ELSE Goes(bytes_read, current_type,
                 SetTop([Top EXCEPT !.pc = "key", !.start_bytes = 0]),
                 "running", err, <<>>, bd)

\* the rest of next_value_seed, once the nested visit_map / visit_seq is back
MapAccess_next_value_seed_return ==
    /\ status \in {"running", "unwinding"} /\ stack # <<>>
    /\ Top.access = "MapAccess" /\ Top.pc = "in_value"
    /\ LET remaining == Top.length_remaining - (bytes_read - Top.start_bytes)
       IN  IF remaining <= 0
           THEN Goes(bytes_read, current_type,
                     SetTop([Top EXCEPT !.length_remaining = remaining]),
                     "panic", RanOutOfBytes, <<>>, bd)
           ELSE IF status = "unwinding"
           THEN Goes(bytes_read, current_type, Rest, AfterErr(Rest), err, <<>>, bd)
           ELSE Goes(bytes_read, current_type,
                     SetTop([Top EXCEPT !.length_remaining = remaining, !.pc = "key",
                                        !.start_bytes = 0]),
                     "running", err, <<>>, bd)

ArrayAccess_next_element_seed ==
    /\ status = "running" /\ stack # <<>>
    /\ Top.access = "ArrayAccess" /\ Top.pc = "element"
    /\ LET tag == read_u8(wire, bytes_read)
           afterTag == Top.length_remaining - 1
           ty == ElementType_from(tag.n)
           index == read_cstring(wire, tag.pos)
           afterIndex == afterTag - (index.pos - tag.pos)
           out == deserialize_any(ty, wire, index.pos)
           remaining == afterIndex - (out.pos - index.pos)
       IN  IF ~tag.ok
           THEN Goes(tag.pos, current_type, Rest, AfterErr(Rest), "io error", <<>>, bd)
           ELSE IF tag.n = 0
           THEN IF afterTag # 0
                THEN Goes(tag.pos, current_type,
                          SetTop([Top EXCEPT !.length_remaining = afterTag]),
                          "panic", StillHaveLength, <<>>, bd)
                ELSE Goes(tag.pos, current_type, Rest, AfterOk(Rest), err,
                          <<Visit("end", tag.pos)>>, bd)
           ELSE IF ty = "None"
           THEN Goes(tag.pos, current_type,
                     SetTop([Top EXCEPT !.length_remaining = afterTag]),
                     "panic", UnwrapNone, <<>>, bd)
           ELSE IF ~index.ok
           THEN Goes(index.pos, ty, Rest, AfterErr(Rest), "io error", <<>>, bd)
           ELSE IF afterIndex <= 0
           THEN Goes(index.pos, ty, SetTop([Top EXCEPT !.length_remaining = afterIndex]),
                     "panic", RanOutOfBytes, <<>>, bd)
           ELSE CASE out.kind = "Panic" ->
                        Goes(out.pos, ty, SetTop([Top EXCEPT !.length_remaining = afterIndex]),
                             "panic", out.msg, <<>>, bd)
                  [] out.kind = "Push" ->
                        Goes(out.pos, ty,
                             SetTop([Top EXCEPT !.length_remaining = afterIndex,
                                                !.pc = "in_element",
                                                !.start_bytes = index.pos])
                                 \o <<out.frame>>,
                             "running", err, out.evs, IF out.bd = NoBD THEN bd ELSE out.bd)
                  [] out.kind = "Ok" ->
                        IF remaining <= 0
                        THEN Goes(out.pos, ty,
                                  SetTop([Top EXCEPT !.length_remaining = remaining]),
                                  "panic", RanOutOfBytes, out.evs, bd)
                        ELSE Goes(out.pos, ty,
                                  SetTop([Top EXCEPT !.length_remaining = remaining]),
                                  "running", err, out.evs, bd)
                  [] out.kind = "Err" ->
                        IF remaining <= 0
                        THEN Goes(out.pos, ty,
                                  SetTop([Top EXCEPT !.length_remaining = remaining]),
                                  "panic", RanOutOfBytes, <<>>, bd)
                        ELSE Goes(out.pos, ty, Rest, AfterErr(Rest), out.msg, <<>>, bd)

\* the rest of next_element_seed, once the nested visit_map / visit_seq is back
ArrayAccess_next_element_seed_return ==
    /\ status \in {"running", "unwinding"} /\ stack # <<>>
    /\ Top.access = "ArrayAccess" /\ Top.pc = "in_element"
    /\ LET remaining == Top.length_remaining - (bytes_read - Top.start_bytes)
       IN  IF remaining <= 0
           THEN Goes(bytes_read, current_type,
                     SetTop([Top EXCEPT !.length_remaining = remaining]),
                     "panic", RanOutOfBytes, <<>>, bd)
           ELSE IF status = "unwinding"
           THEN Goes(bytes_read, current_type, Rest, AfterErr(Rest), err, <<>>, bd)
           ELSE Goes(bytes_read, current_type,
                     SetTop([Top EXCEPT !.length_remaining = remaining, !.pc = "element",
                                        !.start_bytes = 0]),
                     "running", err, <<>>, bd)

\* ObjectIdAccess_next_key_seed with the test of visited turned round
ObjectIdAccess_next_key_seed_EndsFirst ==
    /\ status = "running" /\ stack # <<>>
    /\ Top.access = "ObjectIdAccess" /\ Top.pc = "key"
    /\ IF ~Top.visited
       THEN Goes(bytes_read, current_type, Rest, AfterOk(Rest), err,
                 <<Visit("end", bytes_read)>>, bd)
       ELSE Goes(bytes_read, current_type,
                 SetTop([Top EXCEPT !.visited = TRUE, !.pc = "value"]),
                 "running", err, <<VisitText("key", "$oid", bytes_read)>>, bd)

ObjectIdAccess_next_key_seed ==
    /\ status = "running" /\ stack # <<>>
    /\ Top.access = "ObjectIdAccess" /\ Top.pc = "key"
    /\ IF Top.visited
       THEN Goes(bytes_read, current_type, Rest, AfterOk(Rest), err,
                 <<Visit("end", bytes_read)>>, bd)
       ELSE Goes(bytes_read, current_type,
                 SetTop([Top EXCEPT !.visited = TRUE, !.pc = "value"]),
                 "running", err, <<VisitText("key", "$oid", bytes_read)>>, bd)

\* ObjectIdDeserializer::deserialize_any: visit_string(oid.to_hex())
ObjectIdAccess_next_value_seed ==
    /\ status = "running" /\ stack # <<>>
    /\ Top.access = "ObjectIdAccess" /\ Top.pc = "value"
    /\ Goes(bytes_read, current_type, SetTop([Top EXCEPT !.pc = "key"]), "running", err,
            <<VisitText("string", HexEncode(Top.oid), bytes_read)>>, bd)

\* the BD lives as long as the visit_map of the Binary arm
BinaryAccessBelow(rest) == \E i \in 1..Len(rest) : rest[i].access = "BinaryAccess"

BinaryAccess_next_key_seed ==
    /\ status = "running" /\ stack # <<>>
    /\ Top.access = "BinaryAccess" /\ Top.pc = "key"
    /\ CASE bd.stage = "TopLevel" ->
                Goes(bytes_read, current_type, SetTop([Top EXCEPT !.pc = "value"]), "running",
                     err, <<VisitText("key", "$binary", bytes_read)>>, bd)
         [] bd.stage = "Subtype" ->
                Goes(bytes_read, current_type, SetTop([Top EXCEPT !.pc = "value"]), "running",
                     err, <<VisitText("key", "subType", bytes_read)>>, bd)
         [] bd.stage = "Bytes" ->
                Goes(bytes_read, current_type, SetTop([Top EXCEPT !.pc = "value"]), "running",
                     err, <<VisitText("key", "base64", bytes_read)>>, bd)
         [] bd.stage = "Done" ->
                Goes(bytes_read, current_type, Rest, AfterOk(Rest), err,
                     <<Visit("end", bytes_read)>>,
                     IF BinaryAccessBelow(Rest) THEN bd ELSE NoBD)

\* BinaryAccess_next_value_seed going from Subtype straight to Done
BinaryAccess_next_value_seed_SkipsBytes ==
    /\ status = "running" /\ stack # <<>>
    /\ Top.access = "BinaryAccess" /\ Top.pc = "value"
    /\ CASE bd.stage = "TopLevel" ->
                Goes(bytes_read, current_type,
                     SetTop([Top EXCEPT !.pc = "in_value"]) \o <<BinaryAccess>>, "running",
                     err, <<Visit("map", bytes_read)>>, [bd EXCEPT !.stage = "Subtype"])
         [] bd.stage \in {"Subtype", "Bytes"} ->
                Goes(bytes_read, current_type, SetTop([Top EXCEPT !.pc = "key"]), "running",
                     err, <<VisitText("string", HexEncode(<<bd.subtype>>), bytes_read)>>,
                     [bd EXCEPT !.stage = "Done"])
         [] bd.stage = "Done" ->
                Goes(bytes_read, current_type, stack, "panic", "not yet implemented", <<>>, bd)

\* BD::deserialize_any
BinaryAccess_next_value_seed ==
    /\ status = "running" /\ stack # <<>>
    /\ Top.access = "BinaryAccess" /\ Top.pc = "value"
    /\ CASE bd.stage = "TopLevel" ->
                Goes(bytes_read, current_type,
                     SetTop([Top EXCEPT !.pc = "in_value"]) \o <<BinaryAccess>>, "running",
                     err, <<Visit("map", bytes_read)>>, [bd EXCEPT !.stage = "Subtype"])
         [] bd.stage = "Subtype" ->
                Goes(bytes_read, current_type, SetTop([Top EXCEPT !.pc = "key"]), "running",
                     err, <<VisitText("string", HexEncode(<<bd.subtype>>), bytes_read)>>,
                     [bd EXCEPT !.stage = "Bytes"])
         [] bd.stage = "Bytes" ->
                Goes(bytes_read, current_type, SetTop([Top EXCEPT !.pc = "key"]), "running",
                     err, <<VisitText("string", Base64Encode(bd.bytes), bytes_read)>>,
                     [bd EXCEPT !.stage = "Done"])
         [] bd.stage = "Done" ->
                Goes(bytes_read, current_type, stack, "panic", "not yet implemented", <<>>, bd)

\* next_value_seed of the outer map, once the inner visit_map is back
BinaryAccess_next_value_seed_return ==
    /\ status = "running" /\ stack # <<>>
    /\ Top.access = "BinaryAccess" /\ Top.pc = "in_value"
    /\ Goes(bytes_read, current_type, SetTop([Top EXCEPT !.pc = "key"]), "running", err,
            <<>>, bd)

---------------------------------------------------------------------------
(* Inputs of the streaming decoder: documents in the wire format, and the
   same documents with a declared length, a type tag or the end of the input
   tampered with *)

MaxLengthSkew == 4

\* a signed 32-bit integer as four little-endian bytes (two's complement)
LE32(n) == <<n % 2^8, (n \div 2^8) % 2^8, (n \div 2^16) % 2^8, (n \div 2^24) % 2^8>>

\* one element: type tag, name, NUL, payload
Element(tag, name, payload) == <<tag>> \o name \o <<0>> \o payload

\* a document or array: declared length (off by skew), elements, terminator
Framed(body, skew) == LE32(Len(body) + 5 + skew) \o body \o <<0>>
DocumentBytes(body) == Framed(body, 0)

NameA == <<97>>
NameB == <<98>>
Index0 == <<48>>
Index1 == <<49>>

Int32Field(name, n) == Element(16, name, LE32(n))
Int64Field(name, n) == Element(18, name, LE32(n) \o LE32(IF n < 0 THEN -1 ELSE 0))
DoubleField(name, bs) == Element(1, name, bs)
StringField(name, text) == Element(2, name, LE32(Len(text) + 1) \o text \o <<0>>)
BooleanField(name, b) == Element(8, name, <<IF b THEN 1 ELSE 0>>)
NullField(name) == Element(10, name, <<>>)
UndefinedField(name) == Element(6, name, <<>>)
ObjectIdField(name, oid) == Element(7, name, oid)
BinaryField(name, subtype, bs) == Element(5, name, LE32(Len(bs)) \o <<subtype>> \o bs)
DocumentField(name, body) == Element(3, name, DocumentBytes(body))
ArrayField(name, body) == Element(4, name, DocumentBytes(body))
TimestampField(name, t, i) == Element(17, name, LE32(i) \o LE32(t))
DateTimeField(name, millis) == Element(9, name, LE32(millis) \o LE32(IF millis < 0 THEN -1 ELSE 0))
RegexField(name, pattern, options) == Element(11, name, pattern \o <<0>> \o options \o <<0>>)
StringPayload(text) == LE32(Len(text) + 1) \o text \o <<0>>
DbPointerField(name, ns, oid) == Element(12, name, StringPayload(ns) \o oid)
CodeField(name, code) == Element(13, name, StringPayload(code))
SymbolField(name, text) == Element(14, name, StringPayload(text))
CodeWithScopeField(name, code, scope) ==
    Element(15, name, LE32(4 + Len(StringPayload(code)) + Len(DocumentBytes(scope)))
                        \o StringPayload(code) \o DocumentBytes(scope))
Decimal128Field(name, bs) == Element(19, name, bs)
MinKeyField(name) == Element(255, name, <<>>)
MaxKeyField(name) == Element(127, name, <<>>)

\* the elements of the documents decoded
FlatBodies ==
    { <<>>,
      Int32Field(NameA, 1),
      Int32Field(NameA, -2) \o BooleanField(NameB, TRUE),
      StringField(NameA, <<104, 105>>) \o NullField(NameB),
      Int64Field(NameA, -7) \o DoubleField(NameB, <<0, 0, 0, 0, 0, 0, 41, 64>>) }

ArrayBodies ==
    { <<>>,
      BooleanField(Index0, TRUE),
      Int32Field(Index0, 1) \o NullField(Index1),
      DocumentField(Index0, Int32Field(NameA, 24)) }

Bodies ==
    FlatBodies
    \cup { DocumentField(NameA, b) \o Int32Field(NameB, 3) : b \in FlatBodies }
    \cup { ArrayField(NameA, b) : b \in ArrayBodies }
    \cup { ArrayField(NameA, b) \o BooleanField(NameB, FALSE) : b \in ArrayBodies }
    \cup { ObjectIdField(NameA, Oid1),
           ObjectIdField(NameA, Oid1) \o Int32Field(NameB, 1),
           UndefinedField(NameA) \o Int32Field(NameB, 1),
           BinaryField(NameA, 0, <<36, 36, 36>>),
           BinaryField(NameA, 128, <<1, 2>>) \o NullField(NameB),
           BinaryField(NameA, 4, <<>>),
           ArrayField(NameA, BinaryField(Index0, 2, <<7>>) \o ObjectIdField(Index1, Oid1)) }

WellFormedWires == { DocumentBytes(b) : b \in Bodies }

Skews == { k \in (-MaxLengthSkew)..MaxLengthSkew : k # 0 }

\* a document or an array whose declared length is off: the outermost
\* document, a nested document, an array
SkewedWires ==
    { Framed(b, k) : b \in FlatBodies, k \in Skews }
    \cup { DocumentBytes(Element(3, NameA, Framed(b, k)) \o Int32Field(NameB, 3)) :
              b \in FlatBodies, k \in Skews }
    \cup { DocumentBytes(Element(4, NameA, Framed(b, k)) \o Int32Field(NameB, 3)) :
              b \in ArrayBodies, k \in Skews }

\* bytes that are no registered type tag
BadTags == {20, 32, 128}

\* a well-formed document but for the type tag of one field or one element
BadTagWires ==
    { DocumentBytes(Element(tag, NameA, LE32(1))) : tag \in BadTags }
    \cup { DocumentBytes(Int32Field(NameA, 1) \o Element(tag, NameB, <<>>)) : tag \in BadTags }
    \cup { DocumentBytes(ArrayField(NameA, Element(tag, Index0, LE32(1)))) : tag \in BadTags }
    \cup { DocumentBytes(DocumentField(NameA, Element(tag, NameB, <<1>>))) : tag \in BadTags }

\* the input ends early
Truncated(w, k) == SubSeq(w, 1, Len(w) - k)
TruncatedWires ==
    { Truncated(DocumentBytes(b), k) :
        b \in { Int32Field(NameA, 1),
                DocumentField(NameA, Int32Field(NameB, 1)),
                ArrayField(NameA, Int32Field(Index0, 1)),
                ArrayField(NameA, DocumentField(Index0, StringField(NameA, <<104, 105>>))) },
        k \in 1..12 }
    \cup { <<>>, <<5, 0>> }

\* one field of each kind that the extended JSON form writes as a wrapper
WrapperKindFields(name) ==
    { DateTimeField(name, 0), DateTimeField(name, 16), DateTimeField(name, 10),
      RegexField(name, <<112>>, <<105>>),
      DbPointerField(name, <<110>>, Oid1), CodeField(name, <<99>>), SymbolField(name, <<115>>),
      CodeWithScopeField(name, <<99>>, <<>>), TimestampField(name, 1, 2),
      Decimal128Field(name, <<1, 0, 0, 0, 0, 0, 0, 0, 0, 0, 0, 0, 0, 0, 64, 48>>),
      MinKeyField(name), MaxKeyField(name) }

\* a binary field with a negative length; fields of the wrapper kinds, in a
\* document and in an array, alone and before another field
OtherWires ==
    { DocumentBytes(Element(5, NameA, LE32(-1) \o <<0>>)) }
    \cup { DocumentBytes(f) : f \in WrapperKindFields(NameA) }
    \cup { DocumentBytes(f \o Int32Field(NameB, 1)) : f \in WrapperKindFields(NameA) }
    \cup { DocumentBytes(ArrayField(NameA, f)) : f \in WrapperKindFields(Index0) }

RawInputs == WellFormedWires \cup SkewedWires \cup BadTagWires \cup TruncatedWires \cup OtherWires

RawInit ==
    /\ value = NoValue /\ json = JNull /\ enc = "idle" /\ doc = NoDocument
    /\ r_try_from = NotRun /\ r_from_ext = NotRun /\ r_try_ext = NotRun
    /\ wire \in RawInputs
    /\ bytes_read = 0
    /\ current_type = "EmbeddedDocument"
    /\ stack = <<>>
    /\ bd = NoBD
    /\ status = "start"
    /\ err = ""
    /\ events = <<>>
    /\ TsIdle

RawNext ==
    \/ Deserialize
    \/ MapAccess_next_key_seed
    \/ MapAccess_next_value_seed
    \/ MapAccess_next_value_seed_return
    \/ ArrayAccess_next_element_seed
    \/ ArrayAccess_next_element_seed_return
    \/ ObjectIdAccess_next_key_seed
    \/ ObjectIdAccess_next_value_seed
    \/ BinaryAccess_next_key_seed
    \/ BinaryAccess_next_value_seed
    \/ BinaryAccess_next_value_seed_return

RawSpec == RawInit /\ [][RawNext]_vars

Terminated == status \in {"done", "error", "panic"}

---------------------------------------------------------------------------
(* Properties of the streaming decoder *)

\* C7: decoding a document or an array whose declared length is smaller or
\* larger than the bytes present up to its terminator ends with a decode
\* error returned to the caller: no value is returned, and nothing aborts.
C7_LengthMismatchIsError ==
    (wire \in SkewedWires /\ Terminated) => status = "error"

\* C8: a type-tag byte that is no registered tag makes next_key_seed and
\* next_element_seed return an unrecognized-type-tag decode error, the tag
\* being the last byte read: no byte of the field's name or payload is read.
C8_UnknownTagIsError ==
    (wire \in BadTagWires /\ Terminated)
        => /\ status = "error"
           /\ bytes_read > 0
           /\ wire[bytes_read] \in BadTags

---------------------------------------------------------------------------
(* Properties of the codec: numbers, doubles, dates, regular expressions *)

\* The document {"$numberLong": <a string>}
IsNumberLongDocument(v) ==
    v.t = "Document" /\ Len(v.d) = 1 /\ v.d[1][1] = "$numberLong" /\ v.d[1][2].t = "String"

\* C11: try_from_extended_document of the document {"$numberLong": s}
\* returns Int64(n) when s is the decimal text of a signed 64-bit n, and a
\* decode error when s does not parse as a signed 64-bit integer.
C11_NumberLongDocument ==
    (IsNumberLongDocument(doc) /\ r_try_ext # NotRun) =>
        LET parsed == ParseInt(doc.d[1][2].s, I64_MIN, I64_MAX)
        IN  IF parsed.ok THEN r_try_ext = Ok(Int64(parsed.i)) ELSE IsErr(r_try_ext)

\* C12: into_relaxed_extjson of a NaN Double is {"$numberDouble": "-NaN"}
\* when its sign bit is set and {"$numberDouble": "NaN"} otherwise, and
\* Bson::try_from of that JSON returns a Double that is NaN with the same
\* sign bit.
C12_NaNSignSurvives ==
    (enc = "relaxed" /\ value.t = "Double" /\ is_nan(F64Of(value))) =>
        /\ json = JObj(<< <<"$numberDouble",
                            JStr(IF is_sign_negative(F64Of(value))
                                 THEN <<"-", "N", "a", "N">> ELSE <<"N", "a", "N">>)>> >>)
        /\ r_try_from # NotRun =>
              /\ IsOk(r_try_from)
              /\ r_try_from.val.t = "Double"
              /\ is_nan(F64Of(r_try_from.val))
              /\ is_sign_negative(F64Of(r_try_from.val)) = is_sign_negative(F64Of(value))

C12_Witness ==
    /\ enc = "relaxed" /\ value.t = "Double" /\ is_nan(F64Of(value))
    /\ is_sign_negative(F64Of(value))
    /\ IsOk(r_try_from)
    /\ is_nan(F64Of(r_try_from.val)) /\ is_sign_negative(F64Of(r_try_from.val))

\* jv is an object with the single key $numberDouble and a string value
IsNumberDoubleWrapper(jv) ==
    jv.j = "obj" /\ Len(jv.o) = 1 /\ jv.o[1][1] = "$numberDouble" /\ jv.o[1][2].j = "str"

\* C13: into_canonical_extjson maps every Double, of every class, to an
\* object with the single key $numberDouble and a string value: a finite
\* non-zero value without fractional part ends in ".0", a zero is "0.0" or
\* "-0.0" by sign; no Double comes out as a bare JSON number.
C13_CanonicalDoubleWrapped ==
    (enc = "canonical" /\ value.t = "Double") =>
        /\ IsNumberDoubleWrapper(json)
        /\ LET f == F64Of(value)
               text == json.o[1][2].s
           IN  /\ IsZero(f) => text = (IF is_sign_negative(f) THEN <<"-", "0", ".", "0">>
                                       ELSE <<"0", ".", "0">>)
               /\ (f.cls \in {"normal", "subnormal"} /\ FractIsZero(f)) =>
                     text = F64ToString(f) \o <<".", "0">>

\* The instant of a DateTime, cut to whole milliseconds
AtMillisPrecision(v) ==
    DateTime(v.secs, timestamp_subsec_millis(v) * NanosPerMilli)

\* C14: into_relaxed_extjson encodes a DateTime as {"$date": <RFC3339
\* string>} exactly when its epoch milliseconds are >= 0 and its year is
\* <= 99999, with seconds precision when the millisecond of the second is 0
\* and millisecond precision otherwise, every other DateTime as {"$date":
\* {"$numberLong": "<ms>"}}; Bson::try_from of either form gives back the
\* same instant at millisecond precision.
C14_RelaxedDateRoundTrip ==
    (enc = "relaxed" /\ value.t = "DateTime") =>
        /\ json =
             IF timestamp_millis(value) >= 0 /\ year(value) <= 99999
             THEN JObj(<< <<"$date",
                            JStr(to_rfc3339_opts(value, timestamp_subsec_millis(value) # 0))>> >>)
             ELSE DateJson(timestamp_millis(value))
        /\ r_try_from # NotRun => r_try_from = Ok(AtMillisPrecision(value))

\* Ascending character order, and equality up to the order of the characters
IsAscending(cs) == \A k \in 1..(Len(cs) - 1) : CharOrd(cs[k]) <= CharOrd(cs[k + 1])
CountOf(c, cs) == Cardinality({k \in 1..Len(cs) : cs[k] = c})
IsPermutation(a, b) ==
    Len(a) = Len(b) /\ \A k \in 1..Len(a) : CountOf(a[k], a) = CountOf(a[k], b)

\* {"$regularExpression": {"pattern": <string>, "options": <string>}} as JSON
\* and as a Document
IsRegexWrapper(jv) ==
    /\ jv.j = "obj" /\ Len(jv.o) = 1 /\ jv.o[1][1] = "$regularExpression"
    /\ jv.o[1][2].j = "obj" /\ Len(jv.o[1][2].o) = 2
    /\ Keys(jv.o[1][2].o) = {"pattern", "options"}
    /\ Get(jv.o[1][2].o, "pattern").j = "str" /\ Get(jv.o[1][2].o, "options").j = "str"
IsRegexDocument(v) ==
    /\ v.t = "Document" /\ Len(v.d) = 1 /\ v.d[1][1] = "$regularExpression"
    /\ v.d[1][2].t = "Document" /\ Len(v.d[1][2].d) = 2
    /\ Keys(v.d[1][2].d) = {"pattern", "options"}
    /\ Get(v.d[1][2].d, "pattern").t = "String" /\ Get(v.d[1][2].d, "options").t = "String"

\* res is the regular expression of this pattern with these options put in
\* ascending order
IsCanonicalRegex(res, pattern, options) ==
    /\ IsOk(res) /\ res.val.t = "RegularExpression" /\ res.val.pattern = pattern
    /\ IsAscending(res.val.options) /\ IsPermutation(res.val.options, options)
    /\ IsAscending(options) => res.val.options = options

\* C15: a $regularExpression wrapper decodes, through Bson::try_from and
\* through from_extended_document, to the regular expression with the same
\* pattern and the options in ascending character order; every wrapper whose
\* options are a permutation of these decodes to the equal value; options
\* already in order come back unchanged; both encoders write the options in
\* ascending order
C15_RegexOptionsCanonical ==
    /\ (enc = "input" /\ IsRegexWrapper(json) /\ r_try_from # NotRun) =>
          LET pattern == Get(json.o[1][2].o, "pattern").s
              options == Get(json.o[1][2].o, "options").s
          IN  /\ IsCanonicalRegex(r_try_from, pattern, options)
              /\ \A o2 \in RegexOptionInputs :
                    IsPermutation(o2, options) => try_from(RegexJson(pattern, o2)) = r_try_from
    /\ (IsRegexDocument(doc) /\ r_from_ext # NotRun) =>
          LET pattern == Get(doc.d[1][2].d, "pattern").s
              options == Get(doc.d[1][2].d, "options").s
          IN  /\ IsCanonicalRegex(r_from_ext, pattern, options)
              /\ \A o2 \in RegexOptionInputs :
                    IsPermutation(o2, options) =>
                       from_extended_document(from_value_no_parse(RegexJson(pattern, o2)).d)
                          = r_from_ext
    /\ (enc \in {"relaxed", "canonical"} /\ value.t = "RegularExpression") =>
          /\ IsRegexWrapper(json)
          /\ Get(json.o[1][2].o, "pattern").s = value.pattern
          /\ IsAscending(Get(json.o[1][2].o, "options").s)
          /\ IsPermutation(Get(json.o[1][2].o, "options").s, value.options)

\* options "xmi" given as JSON, decoded on both paths to options "imx"
C15_Witness ==
    /\ enc = "input" /\ json = RegexJson(<<"p">>, <<"x", "m", "i">>)
    /\ r_try_from = Ok(RegularExpression(<<"p">>, <<"i", "m", "x">>))
    /\ r_from_ext = r_try_from

\* C16: neither encoder crashes: into_relaxed_extjson and
\* into_canonical_extjson return a JSON value for every value, one that holds
\* a Decimal128 included (the missing decimal support is reported, not
\* panicked on), and for a value without Decimal128 the JSON value is the
\* encoding
C16_EncodersDoNotPanic ==
    enc \in {"relaxed", "canonical"} =>
        /\ json # JPanic
        /\ ~HoldsDecimal128(value) => json.j \in {"null", "bool", "int", "float", "str", "arr", "obj"}

\* the part of C16 about values without Decimal128
C16_TotalWithoutDecimal128 ==
    (enc \in {"relaxed", "canonical"} /\ ~HoldsDecimal128(value)) => json # JPanic

---------------------------------------------------------------------------
(* Timestamp::to_le_i64 and Timestamp::from_le_i64.  In this part an        *)
(* integer is the sequence of its bytes, most significant first (4 bytes   *)
(* for u32, 8 for u64 and i64), so that the byte order of the target has   *)
(* something to act on.  The fields of a Timestamp are u32.                *)

BitAt(b, k) == (b \div 2^k) % 2
ByteOr(a, b) ==
    LET bit(k) == IF BitAt(a, k) = 1 \/ BitAt(b, k) = 1 THEN 2^k ELSE 0
    IN  bit(0) + bit(1) + bit(2) + bit(3) + bit(4) + bit(5) + bit(6) + bit(7)
ByteAnd(a, b) ==
    LET bit(k) == IF BitAt(a, k) = 1 /\ BitAt(b, k) = 1 THEN 2^k ELSE 0
    IN  bit(0) + bit(1) + bit(2) + bit(3) + bit(4) + bit(5) + bit(6) + bit(7)

\* a | b and a & b of two integers of one width
BitOr(a, b) == [k \in 1..Len(a) |-> ByteOr(a[k], b[k])]
BitAnd(a, b) == [k \in 1..Len(a) |-> ByteAnd(a[k], b[k])]

\* x.swap_bytes()
swap_bytes(x) == [k \in 1..Len(x) |-> x[Len(x) + 1 - k]]

\* x.to_le(): nothing on a little-endian target, the bytes swapped on a
\* big-endian one
to_le(x) == IF target = "little" THEN x ELSE swap_bytes(x)

\* x as u64, of a u32
U32AsU64(x) == <<0, 0, 0, 0>> \o x
\* x as u32, of a u64 or i64
U64AsU32(x) == SubSeq(x, 5, 8)
\* x << 32 and x >> 32, of a u64
Shl32(x) == SubSeq(x, 5, 8) \o <<0, 0, 0, 0>>
Shr32(x) == <<0, 0, 0, 0>> \o SubSeq(x, 1, 4)
\* 0xFFFF_FFFF as i64
LowMask == <<0, 0, 0, 0, 255, 255, 255, 255>>

to_le_i64(self) ==
    LET upper == Shl32(U32AsU64(to_le(self.time)))
        lower == U32AsU64(to_le(self.increment))
    IN  BitOr(upper, lower)

from_le_i64(val) ==
    LET ts == to_le(val)
    IN  Timestamp(U64AsU32(Shr32(ts)), U64AsU32(BitAnd(ts, LowMask)))

\* An i64 in the chain
I64Value(b) == [t |-> "i64", b |-> b]

\* u32 values: zero, one, the top bit, all ones, bytes that all differ
WordInputs ==
    {<<0, 0, 0, 0>>, <<0, 0, 0, 1>>, <<1, 0, 0, 0>>, <<128, 0, 0, 0>>, <<0, 255, 0, 0>>,
     <<1, 2, 3, 4>>, <<255, 255, 255, 255>>}
ChainInputs ==
    {Timestamp(time, increment) : time \in WordInputs, increment \in WordInputs}
    \cup {I64Value(hi \o lo) : hi \in WordInputs, lo \in WordInputs}

\* How many values a chain holds at most
MaxChain == 3

CodecIdle ==
    /\ value = NoValue /\ json = JNull /\ enc = "idle" /\ doc = NoDocument
    /\ r_try_from = NotRun /\ r_from_ext = NotRun /\ r_try_ext = NotRun

TsInit ==
    /\ CodecIdle
    /\ RawIdle
    /\ target \in {"little", "big"}
    /\ chain \in {<<x>> : x \in ChainInputs}

\* Timestamp::to_le_i64(self)
Timestamp_to_le_i64 ==
    /\ Len(chain) \in 1..(MaxChain - 1)
    /\ chain[Len(chain)].t = "Timestamp"
    /\ chain' = Append(chain, I64Value(to_le_i64(chain[Len(chain)])))
    /\ UNCHANGED <<target, codec_vars, raw_vars>>

\* Timestamp::from_le_i64(val)
Timestamp_from_le_i64 ==
    /\ Len(chain) \in 1..(MaxChain - 1)
    /\ chain[Len(chain)].t = "i64"
    /\ chain' = Append(chain, from_le_i64(chain[Len(chain)].b))
    /\ UNCHANGED <<target, codec_vars, raw_vars>>

TsNext == Timestamp_to_le_i64 \/ Timestamp_from_le_i64
TsSpec == TsInit /\ [][TsNext]_vars

\* to_le_i64 has put time in the high 32 bits and increment in the low 32
\* bits, and each function has undone the other
PackedAndBack ==
    \A k \in 1..(Len(chain) - 1) :
        /\ chain[k].t = "Timestamp" =>
              chain[k + 1] = I64Value(chain[k].time \o chain[k].increment)
        /\ k + 2 <= Len(chain) => chain[k + 2] = chain[k]

\* C17: Timestamp::to_le_i64 yields the 64-bit integer whose high 32 bits are
\* time and whose low 32 bits are increment; from_le_i64(to_le_i64(ts)) = ts
\* for every Timestamp and to_le_i64(from_le_i64(x)) = x for every i64
C17_TimestampPacking == PackedAndBack

\* the same on a little-endian target alone
C17_LittleEndianPacking == target = "little" => PackedAndBack

---------------------------------------------------------------------------
(* Properties of the codec: $timestamp                                      *)

InU32(n) == 0 <= n /\ n <= U32_MAX

\* {"$timestamp": {"t": <integer>, "i": <integer>}} as JSON and as a Document
IsTimestampWrapper(jv) ==
    /\ jv.j = "obj" /\ Len(jv.o) = 1 /\ jv.o[1][1] = "$timestamp"
    /\ jv.o[1][2].j = "obj" /\ Len(jv.o[1][2].o) = 2
    /\ Keys(jv.o[1][2].o) = {"t", "i"}
    /\ Get(jv.o[1][2].o, "t").j = "int" /\ Get(jv.o[1][2].o, "i").j = "int"
IsTimestampDocument(v) ==
    /\ v.t = "Document" /\ Len(v.d) = 1 /\ v.d[1][1] = "$timestamp"
    /\ v.d[1][2].t = "Document" /\ Len(v.d[1][2].d) = 2
    /\ Keys(v.d[1][2].d) = {"t", "i"}
    /\ Get(v.d[1][2].d, "t").t \in {"Int32", "Int64"}
    /\ Get(v.d[1][2].d, "i").t \in {"Int32", "Int64"}

\* res is Timestamp{time: t, increment: i} when both are u32, and is not a
\* Timestamp otherwise
TimestampIffU32(res, t, i) ==
    IF InU32(t) /\ InU32(i) THEN res = Ok(Timestamp(t, i))
    ELSE ~(IsOk(res) /\ res.val.t = "Timestamp")

\* C18: each decode path turns {"$timestamp": {"t": t, "i": i}} into
\* Timestamp{time: t, increment: i} exactly when t and i both lie in
\* 0..=u32::MAX; with a negative field, or one above u32::MAX, no path gives
\* a Timestamp
C18_TimestampFieldsAreU32 ==
    /\ (enc = "input" /\ IsTimestampWrapper(json) /\ r_try_from # NotRun) =>
          TimestampIffU32(r_try_from, Get(json.o[1][2].o, "t").n, Get(json.o[1][2].o, "i").n)
    /\ (IsTimestampDocument(doc) /\ r_from_ext # NotRun) =>
          TimestampIffU32(r_from_ext, Get(doc.d[1][2].d, "t").i, Get(doc.d[1][2].d, "i").i)
    /\ (IsTimestampDocument(doc) /\ r_try_ext # NotRun) =>
          TimestampIffU32(r_try_ext, Get(doc.d[1][2].d, "t").i, Get(doc.d[1][2].d, "i").i)

\* the three paths of C18 one by one
C18_TryFrom ==
    (enc = "input" /\ IsTimestampWrapper(json) /\ r_try_from # NotRun) =>
        TimestampIffU32(r_try_from, Get(json.o[1][2].o, "t").n, Get(json.o[1][2].o, "i").n)
C18_FromExtendedDocument ==
    (IsTimestampDocument(doc) /\ r_from_ext # NotRun) =>
        TimestampIffU32(r_from_ext, Get(doc.d[1][2].d, "t").i, Get(doc.d[1][2].d, "i").i)
C18_TryFromExtendedDocument ==
    (IsTimestampDocument(doc) /\ r_try_ext # NotRun) =>
        TimestampIffU32(r_try_ext, Get(doc.d[1][2].d, "t").i, Get(doc.d[1][2].d, "i").i)

---------------------------------------------------------------------------
(* Properties of the streaming decoder: the length counters                 *)

IsCounted(frame) == frame.access \in {"MapAccess", "ArrayAccess"}

\* Where the document or array of the k-th access object begins (at its
\* length prefix): the top-level document at 0, a nested one where the
\* enclosing access object began to read its value
StartOf(k) == IF k = 1 THEN 0 ELSE stack[k - 1].start_bytes
\* The length it declares
Declared(k) == read_i32(wire, StartOf(k)).n
\* How far the reader was when its counter was last brought up to date
CountedUpTo(k) ==
    IF stack[k].pc \in {"in_value", "in_element"} THEN stack[k].start_bytes ELSE bytes_read

\* Every counter is the declared length less the bytes read since the
\* document began, the bytes of nested documents and arrays included
CounterIsWhatIsLeft ==
    status \in {"running", "unwinding"} =>
        \A k \in 1..Len(stack) :
            IsCounted(stack[k]) =>
                stack[k].length_remaining = Declared(k) - (CountedUpTo(k) - StartOf(k))

\* A decode that has completed has read the declared number of bytes
DoneAtDeclaredLength == status = "done" => bytes_read = read_i32(wire, 0).n

\* A step in which a MapAccess or ArrayAccess says it is over
ReturnsEnd ==
    /\ status = "running" /\ stack # <<>> /\ IsCounted(Top) /\ Top.pc \in {"key", "element"}
    /\ stack' = Rest /\ status' \in {"running", "done"}
\* It does so on a zero byte that brings the counter to 0, the declared
\* length having been read
EndOnlyAtZero ==
    ReturnsEnd =>
        /\ read_u8(wire, bytes_read).n = 0 /\ bytes_read' = bytes_read + 1
        /\ Top.length_remaining - 1 = 0
        /\ bytes_read' - StartOf(Len(stack)) = Declared(Len(stack))

\* A step after which a field name or a field value has been read and the
\* decode goes on: the counter is positive
PositiveAfterNameAndValue ==
    \A k \in 1..Len(stack) :
        (/\ k <= Len(stack') /\ status' = "running"
         /\ IsCounted(stack'[k]) /\ stack'[k] # stack[k]) =>
            stack'[k].length_remaining > 0

\* C19: MapAccess and ArrayAccess return end-of-map / end-of-sequence only on
\* the terminator byte with length_remaining exactly 0; length_remaining is
\* positive after every field name and field value before it; a decode that
\* completes has read exactly the declared number of bytes, and the bytes of
\* a nested document or array are charged to the counter of every enclosing
\* one
C19_LengthCounters ==
    /\ [](CounterIsWhatIsLeft /\ DoneAtDeclaredLength)
    /\ [][EndOnlyAtZero /\ PositiveAfterNameAndValue]_vars

\* a decode that has completed, of a document that holds an array
C19_Witness ==
    /\ status = "done" /\ bytes_read = read_i32(wire, 0).n
    /\ \E k \in 1..Len(events) : events[k].e = "seq"

---------------------------------------------------------------------------
(* Properties of the streaming decoder: the binary sub-decoder              *)

StageIndex(stage) ==
    CASE stage = "TopLevel" -> 1
      [] stage = "Subtype" -> 2
      [] stage = "Bytes" -> 3
      [] stage = "Done" -> 4
      [] OTHER -> 0

LowerHexDigits ==
    <<"0", "1", "2", "3", "4", "5", "6", "7", "8", "9", "a", "b", "c", "d", "e", "f">>
TwoHexDigits(n) == <<LowerHexDigits[(n \div 16) + 1], LowerHexDigits[(n % 16) + 1]>>

\* What a visitor that reads a key, then its value, is handed for a binary of
\* a subtype other than generic: the outer map with the key "$binary", the
\* inner map with "subType" and "base64", the end of each
BinaryEvents(b, at) ==
    <<Visit("map", at), VisitText("key", "$binary", at),
      Visit("map", at), VisitText("key", "subType", at),
      VisitText("string", TwoHexDigits(b.subtype), at),
      VisitText("key", "base64", at), VisitText("string", Base64Encode(b.bytes), at),
      Visit("end", at), Visit("end", at)>>

EndsWith(seq, suffix) ==
    /\ Len(seq) >= Len(suffix)
    /\ SubSeq(seq, Len(seq) - Len(suffix) + 1, Len(seq)) = suffix

\* The stage once the first n of these events have been handed over: one
\* stage further with each value read (events 3, 5 and 7)
StageAfter(n) ==
    IF n <= 2 THEN "TopLevel" ELSE IF n <= 4 THEN "Subtype" ELSE IF n <= 6 THEN "Bytes" ELSE "Done"

\* While a binary sub-decoder is alive the events so far end with the first
\* n events of its sequence, and its stage is the one n events stand for
BinaryInOrder ==
    bd # NoBD =>
        /\ status = "running"
        /\ \E n \in 1..8 :
              /\ EndsWith(events, SubSeq(BinaryEvents(bd, bytes_read), 1, n))
              /\ bd.stage = StageAfter(n)

\* A step changes the stage only by a value read, and only to the next stage
StageStepsForward ==
    /\ (bd = NoBD /\ bd' # NoBD) => bd'.stage = "TopLevel"
    /\ (bd # NoBD /\ bd' # NoBD) =>
          /\ bd'.subtype = bd.subtype /\ bd'.bytes = bd.bytes
          /\ IF Top.access = "BinaryAccess" /\ Top.pc = "value"
             THEN StageIndex(bd'.stage) = StageIndex(bd.stage) + 1
             ELSE bd'.stage = bd.stage
    /\ (bd # NoBD /\ bd' = NoBD) =>
          /\ bd.stage = "Done"
          /\ EndsWith(events', BinaryEvents(bd, bytes_read))
          /\ status' = "running"

\* C20: the stage of the binary sub-decoder goes TopLevel, Subtype, Bytes,
\* Done, one stage per value read, never back and never past a stage; the
\* outer map yields the key "$binary" alone, its value being an inner map
\* that yields "subType" with the subtype as two lowercase hex digits, then
\* "base64" with the payload in base64, then its end, after which the outer
\* map ends too
C20_BinaryStagesInOrder == []BinaryInOrder /\ [][StageStepsForward]_vars

\* a binary of subtype 0x80 decoded to its end
C20_Witness ==
    /\ status = "done"
    /\ \E k \in 1..Len(events) :
          /\ k + 8 <= Len(events)
          /\ SubSeq(events, k, k + 8) = BinaryEvents(BD(128, <<1, 2>>, "Done"), events[k].at)

---------------------------------------------------------------------------
(* Properties of the streaming decoder: the object-id sub-decoder           *)

\* The bytes as lowercase hex, two digits a byte
HexText(bs) == [k \in 1..(2 * Len(bs)) |-> TwoHexDigits(bs[(k + 1) \div 2])[((k - 1) % 2) + 1]]

\* The 12 bytes of the identifier the reader has just passed
OidOnWire == SubSeq(wire, bytes_read - OidLen + 1, bytes_read)

OnObjectId == stack # <<>> /\ Top.access = "ObjectIdAccess"

\* While an ObjectIdAccess is alive it holds the identifier read from the
\* wire, and the events so far end with what a single-field map hands over:
\* the map, then "$oid" once visited is set, then the hex string
ObjectIdInOrder ==
    (OnObjectId /\ status = "running") =>
        /\ Top.oid = OidOnWire
        /\ IF ~Top.visited
           THEN Top.pc = "key" /\ EndsWith(events, <<Visit("map", bytes_read)>>)
           ELSE IF Top.pc = "value"
           THEN EndsWith(events, <<Visit("map", bytes_read),
                                   VisitText("key", "$oid", bytes_read)>>)
           ELSE EndsWith(events, <<Visit("map", bytes_read),
                                   VisitText("key", "$oid", bytes_read),
                                   VisitText("string", HexText(OidOnWire), bytes_read)>>)

\* A step of an ObjectIdAccess: the first key read yields "$oid" and sets
\* visited, a key read with visited set yields end-of-map, the value read
\* yields the 24 hex digits, and visited is never cleared
ObjectIdSteps ==
    (OnObjectId /\ status = "running") =>
        /\ (Top.pc = "key" /\ ~Top.visited) =>
              /\ events' = Append(events, VisitText("key", "$oid", bytes_read))
              /\ stack' = SetTop([Top EXCEPT !.visited = TRUE, !.pc = "value"])
        /\ (Top.pc = "key" /\ Top.visited) =>
              /\ events' = Append(events, Visit("end", bytes_read))
              /\ stack' = Rest /\ status' \in {"running", "done"}
        /\ Top.pc = "value" =>
              /\ events' = Append(events, VisitText("string", HexText(Top.oid), bytes_read))
              /\ Len(HexText(Top.oid)) = 24
              /\ stack' = SetTop([Top EXCEPT !.pc = "key"])
        /\ (Top.visited /\ Len(stack') = Len(stack)) => stack'[Len(stack)].visited
        /\ bytes_read' = bytes_read

\* C21: the object-id sub-decoder is a single-field map: its first key read
\* yields "$oid" and sets visited, a later key read yields end-of-map, visited
\* never returns to false, and the value read yields the identifier as 24
\* lowercase hex digits
C21_ObjectIdSingleField == []ObjectIdInOrder /\ [][ObjectIdSteps]_vars

\* an object id decoded to the end of its map, and the document after it
C21_Witness ==
    /\ status = "done"
    /\ \E k \in 1..Len(events) :
          /\ k + 3 <= Len(events)
          /\ SubSeq(events, k, k + 3) =
                <<Visit("map", events[k].at), VisitText("key", "$oid", events[k].at),
                  VisitText("string", HexText(Oid1), events[k].at),
                  Visit("end", events[k].at)>>

---------------------------------------------------------------------------
(* Properties of the streaming decoder: the kinds written as wrappers       *)

WrapperKinds ==
    {"DateTime", "RegularExpression", "JavaScriptCode", "JavaScriptCodeWithScope",
     "Timestamp", "Decimal128", "DbPointer", "Symbol", "MinKey", "MaxKey"}

\* The key of the wrapper the extended JSON form has for each kind
WrapperKeyOf(kind) ==
    CASE kind = "DateTime" -> "$date"
      [] kind = "RegularExpression" -> "$regularExpression"
      [] kind \in {"JavaScriptCode", "JavaScriptCodeWithScope"} -> "$code"
      [] kind = "Timestamp" -> "$timestamp"
      [] kind = "Decimal128" -> "$numberDecimal"
      [] kind = "DbPointer" -> "$dbPointer"
      [] kind = "Symbol" -> "$symbol"
      [] kind = "MinKey" -> "$minKey"
      [] kind = "MaxKey" -> "$maxKey"

\* Where the payload of a field of this kind ends, beginning at pos
PayloadEnd(kind, w, pos) ==
    CASE kind \in {"DateTime", "Timestamp"} -> pos + 8
      [] kind = "Decimal128" -> pos + 16
      [] kind \in {"MinKey", "MaxKey"} -> pos
      [] kind \in {"JavaScriptCode", "Symbol"} -> pos + 4 + read_i32(w, pos).n
      [] kind = "DbPointer" -> pos + 4 + read_i32(w, pos).n + OidLen
      [] kind = "JavaScriptCodeWithScope" -> pos + read_i32(w, pos).n
      [] kind = "RegularExpression" -> read_cstring(w, read_cstring(w, pos).pos).pos

\* A step in which deserialize_any runs on the payload of a field of a
\* wrapper kind: the value read of a MapAccess, the element read of an
\* ArrayAccess once the tag and the index are read
DecodesWrapperKind ==
    /\ status = "running" /\ stack # <<>>
    /\ \/ Top.access = "MapAccess" /\ Top.pc = "value" /\ current_type \in WrapperKinds
       \/ /\ Top.access = "ArrayAccess" /\ Top.pc = "element"
          /\ read_u8(wire, bytes_read).ok
          /\ ElementType_from(read_u8(wire, bytes_read).n) \in WrapperKinds
          /\ read_cstring(wire, bytes_read + 1).ok
          /\ Top.length_remaining - (read_cstring(wire, bytes_read + 1).pos - bytes_read) > 0
KindDecoded ==
    IF Top.access = "MapAccess" THEN current_type
    ELSE ElementType_from(read_u8(wire, bytes_read).n)
PayloadStart ==
    IF Top.access = "MapAccess" THEN bytes_read ELSE read_cstring(wire, bytes_read + 1).pos

FailsExplicitly == status' \in {"panic", "error", "unwinding"}
DeliversWrapper ==
    /\ bytes_read' = PayloadEnd(KindDecoded, wire, PayloadStart)
    /\ Len(events') >= Len(events) + 2
    /\ events'[Len(events) + 1].e = "map"
    /\ events'[Len(events) + 2] =
          VisitText("key", WrapperKeyOf(KindDecoded), events'[Len(events) + 2].at)

\* C22: for a field of kind datetime, regex, code, code-with-scope, timestamp,
\* decimal128, db-pointer, symbol, min key or max key, deserialize_any either
\* reads exactly the payload and hands the visitor the wrapper of that kind,
\* or fails; it does not return normally with nothing delivered or with the
\* payload unread
C22_WrapperKindsDecodedOrFail ==
    [][DecodesWrapperKind => (FailsExplicitly \/ DeliversWrapper)]_vars

\* the kinds of C22 other than datetime
C22_OtherThanDateTime ==
    [][(DecodesWrapperKind /\ KindDecoded # "DateTime") =>
          (FailsExplicitly \/ DeliversWrapper)]_vars

---------------------------------------------------------------------------
(* Properties of the streaming decoder: undefined                           *)

\* The value a visitor builds from a scalar handed to it, as JSON and as Bson
EventJson(ev) == IF ev.e = "bool" THEN JBool(ev.b) ELSE JInt(ev.n)
EventBson(ev) == IF ev.e = "bool" THEN Boolean(ev.b) ELSE Int32(ev.n)

\* The k-th event is the key "$undefined" of a map and its value has followed
UndefinedEmittedAt(k) ==
    /\ k > 1 /\ k + 2 <= Len(events)
    /\ events[k - 1].e = "map"
    /\ events[k] = VisitText("key", "$undefined", events[k].at)
    /\ events[k + 1].e \in {"bool", "i32"}
    /\ events[k + 2].e = "end"

\* C23: the map the streaming decoder hands over for an undefined field is
\* {"$undefined": true}, which Bson::try_from and try_from_extended_document
\* decode to Undefined
C23_UndefinedShape ==
    \A k \in 1..Len(events) :
        UndefinedEmittedAt(k) =>
            /\ events[k + 1] = VisitBool(TRUE, events[k + 1].at)
            /\ try_from(JObj(<< <<"$undefined", EventJson(events[k + 1])>> >>)) = Ok(Undefined)
            /\ try_from_extended_document(<< <<"$undefined", EventBson(events[k + 1])>> >>)
                  = Ok(Undefined)

\* the map of C23 is a single-field map with the key "$undefined"
C23_UndefinedIsSingleFieldMap ==
    \A k \in 1..Len(events) :
        (events[k].e = "key" /\ events[k] = VisitText("key", "$undefined", events[k].at)) =>
            UndefinedEmittedAt(k)

---------------------------------------------------------------------------
(* Properties of the streaming decoder: the length of a binary              *)

\* A step in which deserialize_any runs on a binary field of a document whose
\* length prefix and subtype byte are there to be read
DecodesBinary ==
    /\ status = "running" /\ stack # <<>>
    /\ Top.access = "MapAccess" /\ Top.pc = "value" /\ current_type = "Binary"
    /\ read_i32(wire, bytes_read).ok /\ read_u8(wire, bytes_read + 4).ok
BinaryLength == read_i32(wire, bytes_read).n
BinarySubtypeByte == read_u8(wire, bytes_read + 4).n
BinaryPayload == SubSeq(wire, bytes_read + 6, bytes_read + 5 + BinaryLength)

\* A negative length is an error handed back, and no payload byte is read
NegativeLengthIsError ==
    (DecodesBinary /\ BinaryLength < 0) =>
        /\ status' \in {"error", "unwinding"}
        /\ bytes_read' <= bytes_read + 5

\* Of a length L that is not negative and a payload that is all there, the
\* subtype byte and L payload bytes are read; a generic binary is handed over
\* as the bytes
ReadsDeclaredPayload ==
    (DecodesBinary /\ BinaryLength >= 0 /\ bytes_read + 5 + BinaryLength <= Len(wire)) =>
        /\ bytes_read' = bytes_read + 5 + BinaryLength
        /\ BinarySubtypeByte = GenericSubtype =>
              events' = Append(events, VisitBytes("byte_buf", BinaryPayload, bytes_read'))

\* C24: a binary field with a negative declared length is a decode error
\* returned to the caller, not an abort, and no payload is read for it; with
\* a length L >= 0 the subtype byte and exactly L payload bytes are read, and
\* a generic binary is delivered as a raw byte sequence
C24_BinaryLength == [][NegativeLengthIsError /\ ReadsDeclaredPayload]_vars

\* the part of C24 about lengths that are not negative
C24_NonNegativeLength == [][ReadsDeclaredPayload]_vars

---------------------------------------------------------------------------
(* Properties of the codec: the Document path on $regularExpression, $code  *)
(* and plain integers                                                       *)

\* C25: try_from_extended_document turns {"$regularExpression": {"pattern":
\* p, "options": o}} into the regular expression with pattern p and the
\* characters of o in ascending order
C25_RegexDocumentDecodes ==
    (IsRegexDocument(doc) /\ r_try_ext # NotRun) =>
        IsCanonicalRegex(r_try_ext, Get(doc.d[1][2].d, "pattern").s,
                         Get(doc.d[1][2].d, "options").s)

\* A $regularExpression document with a sibling key, or with a body that is a
\* document holding a key other than pattern and options
IsRegexDocumentWithUnknownKey(v) ==
    /\ v.t = "Document" /\ ContainsKey(v.d, "$regularExpression")
    /\ \A key \in Keys(v.d) : key \in {"$regularExpression", "x"}
    /\ \/ Len(v.d) > 1
       \/ /\ Get(v.d, "$regularExpression").t = "Document"
          /\ \E key \in Keys(Get(v.d, "$regularExpression").d) : key \notin {"pattern", "options"}

\* the part of C25 about what is rejected
C25_UnknownKeyRejected ==
    (IsRegexDocumentWithUnknownKey(doc) /\ r_try_ext # NotRun) => IsErr(r_try_ext)
C25_UnknownKeyWitness ==
    IsRegexDocumentWithUnknownKey(doc) /\ Len(doc.d) = 1 /\ IsErr(r_try_ext)

\* A document with a string $code and a key that is neither $code nor $scope
IsCodeWithUnknownSibling(v) ==
    /\ v.t = "Document" /\ get_str_ok(v.d, "$code")
    /\ \E key \in Keys(v.d) : key \notin {"$code", "$scope"}

\* C26: try_from_extended_document ends with Ok or with a decode error on
\* every document, never with a panic; a $code wrapper with an unknown
\* sibling key is a decode error
C26_CodeSiblingIsError ==
    r_try_ext # NotRun =>
        /\ IsOk(r_try_ext) \/ IsErr(r_try_ext)
        /\ IsCodeWithUnknownSibling(doc) => IsErr(r_try_ext)

\* the documents of C26 other than a $code wrapper with an unknown sibling
C26_OtherDocumentsEnd ==
    (r_try_ext # NotRun /\ ~IsCodeWithUnknownSibling(doc)) =>
        (IsOk(r_try_ext) \/ IsErr(r_try_ext))

---------------------------------------------------------------------------
(* Properties of the streaming decoder: order of delivery                   *)

\* Where the payload of a field ends, by the wire format, beginning at pos
ValueEnd(kind, w, pos) ==
    CASE kind = "Int32" -> pos + 4
      [] kind \in {"Int64", "Double"} -> pos + 8
      [] kind = "Boolean" -> pos + 1
      [] kind \in {"Null", "Undefined"} -> pos
      [] kind = "String" -> pos + 4 + read_i32(w, pos).n
      [] kind = "ObjectId" -> pos + OidLen
      [] kind \in {"EmbeddedDocument", "Array"} -> pos + read_i32(w, pos).n
      [] kind = "Binary" -> pos + 5 + read_i32(w, pos).n
      [] OTHER -> PayloadEnd(kind, w, pos)

\* What a well-formed document is to hand to the visitor, by the wire format:
\* for each field in wire order its name, then its value, the value being
\* delivered when the reader is at its end.  A kind written as a wrapper
\* stands as one event of its own.
RECURSIVE ElementsInWireOrder(_, _, _, _)
RECURSIVE DocumentInWireOrder(_, _, _)
ValueInWireOrder(kind, w, pos) ==
    LET end == ValueEnd(kind, w, pos)
    IN  CASE kind = "Int32" -> <<VisitI32(LittleEndianI32(SubSeq(w, pos + 1, pos + 4)), end)>>
          [] kind = "Int64" -> <<VisitBytes("i64", SubSeq(w, pos + 1, pos + 8), end)>>
          [] kind = "Double" -> <<VisitBytes("f64", SubSeq(w, pos + 1, pos + 8), end)>>
          [] kind = "Boolean" -> <<VisitBool(w[pos + 1] = 1, end)>>
          [] kind = "Null" -> <<Visit("none", end)>>
          [] kind = "String" -> <<VisitBytes("string", SubSeq(w, pos + 5, end - 1), end)>>
          [] kind = "Undefined" ->
                <<Visit("map", end), VisitText("key", "$undefined", end), VisitI32(1, end),
                  Visit("end", end)>>
          [] kind = "ObjectId" ->
                <<Visit("map", end), VisitText("key", "$oid", end),
                  VisitText("string", HexText(SubSeq(w, pos + 1, end)), end), Visit("end", end)>>
          [] kind = "Binary" ->
                IF w[pos + 5] = GenericSubtype
                THEN <<VisitBytes("byte_buf", SubSeq(w, pos + 6, end), end)>>
                ELSE BinaryEvents(BD(w[pos + 5], SubSeq(w, pos + 6, end), "Done"), end)
          [] kind = "EmbeddedDocument" -> DocumentInWireOrder(w, pos, FALSE)
          [] kind = "Array" -> DocumentInWireOrder(w, pos, TRUE)
          [] OTHER -> <<Visit("wrapper", end)>>
ElementsInWireOrder(w, pos, last, inArray) ==
    IF pos >= last THEN <<>>
    ELSE LET kind == ElementType_from(w[pos + 1])
             name == read_cstring(w, pos + 1)
         IN  (IF inArray THEN <<>> ELSE <<VisitBytes("key", name.bs, name.pos)>>)
             \o ValueInWireOrder(kind, w, name.pos)
             \o ElementsInWireOrder(w, ValueEnd(kind, w, name.pos), last, inArray)
DocumentInWireOrder(w, pos, inArray) ==
    LET end == pos + read_i32(w, pos).n
    IN  <<Visit(IF inArray THEN "seq" ELSE "map", pos + 4)>>
        \o ElementsInWireOrder(w, pos + 4, end - 1, inArray)
        \o <<Visit("end", end)>>

IsPrefix(s, t) == Len(s) <= Len(t) /\ s = SubSeq(t, 1, Len(s))

\* The documents that are as the wire format has them
WellFormedInputs ==
    WellFormedWires
    \cup { DocumentBytes(f) : f \in WrapperKindFields(NameA) }
    \cup { DocumentBytes(f \o Int32Field(NameB, 1)) : f \in WrapperKindFields(NameA) }
    \cup { DocumentBytes(ArrayField(NameA, f)) : f \in WrapperKindFields(Index0) }

\* What has been handed over is the beginning of the document in wire order,
\* all of it once the decode is done
DeliversInWireOrder ==
    wire \in WellFormedInputs =>
        /\ IsPrefix(events, DocumentInWireOrder(wire, 0, FALSE))
        /\ status = "done" => events = DocumentInWireOrder(wire, 0, FALSE)

\* The reader is where the last thing handed over ends
NoReadAhead ==
    (events' # events /\ status' \in {"running", "done"}) =>
        bytes_read' = events'[Len(events')].at

\* C27: the fields of a document and the elements of an array are delivered
\* in wire order, the name of a field before its value, with no read-ahead:
\* after a name or a value is delivered the consumed-byte counter is the
\* wire offset of its end
C27_WireOrder == []DeliversInWireOrder /\ [][NoReadAhead]_vars

\* the same for the documents that hold no datetime field
HoldsDateTime(w) ==
    \E millis \in {0, 10, 16} :
        w \in { DocumentBytes(DateTimeField(NameA, millis)),
                DocumentBytes(DateTimeField(NameA, millis) \o Int32Field(NameB, 1)),
                DocumentBytes(ArrayField(NameA, DateTimeField(Index0, millis))) }
C27_WireOrderWithoutDateTime ==
    /\ [](~HoldsDateTime(wire) => DeliversInWireOrder)
    /\ [][NoReadAhead]_vars
C27_Reached ==
    /\ status = "done" /\ wire \in WellFormedInputs /\ Len(events) > 8
    /\ events = DocumentInWireOrder(wire, 0, FALSE)

---------------------------------------------------------------------------
(* Properties of the streaming decoder: current_type                        *)

\* The type tag of the field whose name was the last thing handed over
TagOfLastName ==
    LET name == events[Len(events)]
    IN  wire[name.at - Len(name.bs) - 1]

\* A MapAccess about to decode the payload of a field: the name of the field
\* is the last thing handed over, and current_type is the kind its tag stands
\* for
TypeIsOfThisField ==
    (status = "running" /\ stack # <<>> /\ Top.access = "MapAccess" /\ Top.pc = "value") =>
        /\ events # <<>> /\ events[Len(events)].e = "key"
        /\ current_type = ElementType_from(TagOfLastName)

\* An ArrayAccess that has read the tag and the index of an element and goes
\* on to its payload has set current_type to the kind the tag stands for
ElementTypeIsOfThisElement ==
    (/\ status = "running" /\ stack # <<>>
     /\ Top.access = "ArrayAccess" /\ Top.pc = "element"
     /\ read_u8(wire, bytes_read).ok /\ read_u8(wire, bytes_read).n # 0
     /\ status' \in {"running", "done"}) =>
        current_type' = ElementType_from(read_u8(wire, bytes_read).n)

\* Only a key read or an element read assigns current_type
TypeAssignedByKeyRead ==
    current_type' # current_type =>
        /\ stack # <<>> /\ Top.access \in {"MapAccess", "ArrayAccess"}
        /\ Top.pc \in {"key", "element"}

\* C28: when deserialize_any decodes the payload of a field, current_type is
\* the kind of the type tag read for that field, also for a field that
\* follows a nested document or array whose fields have assigned current_type
\* in between
C28_CurrentTypeOfField ==
    []TypeIsOfThisField /\ [][ElementTypeIsOfThisElement /\ TypeAssignedByKeyRead]_vars

\* the payload of an Int32 field about to be decoded after a nested document
\* that held a string
C28_Witness ==
    /\ status = "running" /\ Len(stack) = 1 /\ Top.access = "MapAccess" /\ Top.pc = "value"
    /\ current_type = "Int32"
    /\ events[Len(events)] = VisitBytes("key", NameB, bytes_read)
    /\ events[Len(events) - 1].e = "end"
    /\ \E k \in 1..Len(events) : events[k].e = "string"

---------------------------------------------------------------------------
(* A visitor that asks a BinaryAccess for a key again before it reads the
   value of the key it was given *)

MaxKeyReads == 3

\* how many names the visitor has been handed since the last value
KeysInARow ==
    Cardinality({n \in 1..Len(events) :
                    \A k \in (Len(events) - n + 1)..Len(events) : events[k].e = "key"})

\* a key read that moves the stage on, as a value read does
BinaryAccess_next_key_seed_again_Advances ==
    /\ status = "running" /\ stack # <<>>
    /\ Top.access = "BinaryAccess" /\ Top.pc = "value"
    /\ KeysInARow < MaxKeyReads
    /\ CASE bd.stage = "TopLevel" ->
                Goes(bytes_read, current_type, stack, "running",
                     err, <<VisitText("key", "$binary", bytes_read)>>,
                     [bd EXCEPT !.stage = "Subtype"])
         [] bd.stage = "Subtype" ->
                Goes(bytes_read, current_type, stack, "running",
                     err, <<VisitText("key", "subType", bytes_read)>>,
                     [bd EXCEPT !.stage = "Bytes"])
         [] bd.stage = "Bytes" ->
                Goes(bytes_read, current_type, stack, "running",
                     err, <<VisitText("key", "base64", bytes_read)>>,
                     [bd EXCEPT !.stage = "Done"])
         [] bd.stage = "Done" ->
                Goes(bytes_read, current_type, Rest, AfterOk(Rest), err,
                     <<Visit("end", bytes_read)>>,
                     IF BinaryAccessBelow(Rest) THEN bd ELSE NoBD)

\* BinaryAccess::next_key_seed called while the value of the last key is
\* still unread
BinaryAccess_next_key_seed_again ==
    /\ status = "running" /\ stack # <<>>
    /\ Top.access = "BinaryAccess" /\ Top.pc = "value"
    /\ KeysInARow < MaxKeyReads
    /\ CASE bd.stage = "TopLevel" ->
                Goes(bytes_read, current_type, stack, "running",
                     err, <<VisitText("key", "$binary", bytes_read)>>, bd)
         [] bd.stage = "Subtype" ->
                Goes(bytes_read, current_type, stack, "running",
                     err, <<VisitText("key", "subType", bytes_read)>>, bd)
         [] bd.stage = "Bytes" ->
                Goes(bytes_read, current_type, stack, "running",
                     err, <<VisitText("key", "base64", bytes_read)>>, bd)
         [] bd.stage = "Done" ->
                Goes(bytes_read, current_type, Rest, AfterOk(Rest), err,
                     <<Visit("end", bytes_read)>>,
                     IF BinaryAccessBelow(Rest) THEN bd ELSE NoBD)

RereadNext ==
    \/ RawNext
    \/ BinaryAccess_next_key_seed_again

RereadSpec == RawInit /\ [][RereadNext]_vars

\* the step hands the visitor a name from a BinaryAccess
IsBinaryKeyRead ==
    /\ stack # <<>> /\ Top.access = "BinaryAccess"
    /\ Len(events') = Len(events) + 1
    /\ events'[Len(events')].e = "key"

\* the step hands the visitor a value from a BinaryAccess
IsBinaryValueRead ==
    /\ stack # <<>> /\ Top.access = "BinaryAccess" /\ Top.pc = "value"
    /\ Len(events') = Len(events) + 1
    /\ events'[Len(events')].e \in {"map", "string"}

KeyReadKeepsBinary == IsBinaryKeyRead => bd' = bd

OnlyValueReadAdvances ==
    (bd # NoBD /\ bd' # NoBD /\ bd'.stage # bd.stage) => IsBinaryValueRead

\* the event is a name handed over by a BinaryAccess
IsBinaryKey(ev) ==
    /\ ev.e = "key" /\ "text" \in DOMAIN ev
    /\ ev.text \in {"$binary", "subType", "base64"}

\* two names a BinaryAccess hands over with no value in between are the same
\* name
SameKeyTwice ==
    \A k \in 1..(Len(events) - 1) :
        (IsBinaryKey(events[k]) /\ events[k + 1].e = "key") => events[k + 1] = events[k]

\* C29: a key read on a BinaryAccess leaves the stage, the subtype and the
\* bytes as they were; only a value read moves the stage; so key reads made
\* in a row with no value read in between yield the same key each time
C29_KeyReadKeepsStage ==
    []SameKeyTwice /\ [][KeyReadKeepsBinary /\ OnlyValueReadAdvances]_vars

\* "subType" handed over twice in a row, and the binary decoded to its end
\* all the same
C29_Witness ==
    /\ status = "done"
    /\ \E k \in 1..(Len(events) - 3) :
          /\ IsBinaryKey(events[k]) /\ events[k].text = "subType"
          /\ IsBinaryKey(events[k + 1]) /\ events[k + 1] = events[k]
          /\ events[k + 2].e = "string"
          /\ IsBinaryKey(events[k + 3]) /\ events[k + 3].text = "base64"

---------------------------------------------------------------------------
(* Properties of the codec: integers through relaxed JSON *)

InI32(n) == n >= I32_MIN /\ n <= I32_MAX

\* what try_from is to give back for an integer sent through relaxed JSON
NarrowestInteger(n) == IF InI32(n) THEN Int32(n) ELSE Int64(n)

\* C30: try_from of the relaxed JSON of Int64(n) returns Int32(n) when n is
\* in the signed 32-bit range and Int64(n) otherwise, and try_from of the
\* relaxed JSON of Int32(n) returns Int32(n): the number is kept, the width
\* is not always
C30_RelaxedIntegerRoundTrip ==
    (enc = "relaxed" /\ value.t \in {"Int32", "Int64"}) =>
        /\ json = JInt(value.i)
        /\ r_try_from # NotRun =>
              /\ r_try_from = Ok(NarrowestInteger(value.i))
              /\ r_try_from.val.i = value.i
              /\ value.t = "Int32" => r_try_from.val = value

\* an Int64 at the upper end of the 32-bit range has come back as an Int32
C30_Witness ==
    /\ enc = "relaxed" /\ value = Int64(I32_MAX)
    /\ r_try_from = Ok(Int32(I32_MAX))

\* an Int64 just outside the 32-bit range has come back as it was
C30_WideWitness ==
    /\ enc = "relaxed" /\ value = Int64(I32_MIN - 1)
    /\ r_try_from = Ok(Int64(I32_MIN - 1))

====
